---- MODULE Spec2Model ----
(***************************************************************************)
(* Sweep + parse pipeline of the sparseloop artifact scripts.              *)
(*                                                                         *)
(*   Spec         sweep.py main / run_timeloop run twice on the same       *)
(*                output directories, each run followed by                 *)
(*                parse_and_plot1.main                                     *)
(*   SpecExtract  the three report extractors applied to one report        *)
(*                (parse_results.extract_metrics_from_stats,               *)
(*                parse_plot_dynamic.extract_metrics_from_stats,           *)
(*                parse_and_plot1.parse_stats)                             *)
(*   SpecParse    parse_results.main and parse_plot_dynamic.main on one    *)
(*                input directory                                          *)
(*   SpecDynamic  sweep_dynamic.py main / run_single_timeloop on one       *)
(*                sequence file                                            *)
(*   SpecSweeps   a run of sweep.py or a run of sweep_dynamic.py           *)
(*   SpecSweepsLive  the same, the scripts' own steps weakly fair          *)
(*   SpecM2       parse_and_plot_m2.parse_timeloop_stats on one report     *)
(*   SpecConfigure  configure_run.main, then sweep_dynamic.py on the       *)
(*                sequence file it wrote                                   *)
(*   SpecCompare  compare_stc_dstc.main up to its comparison table         *)
(*                                                                         *)
(* A report is a sequence of lines.  A line is a record of the tokens the  *)
(* regular expressions of the extractors look at:                          *)
(*   lead  what precedes the key on the line: nothing, blanks, other text  *)
(*   key   the word before the colon                                       *)
(*   gap   number of blanks between the colon and the value                *)
(*   val   the numeric token: kind "int" (digits only) or "dec" (digits,   *)
(*         one dot, digits); milli is its value in thousandths             *)
(*   ugap  number of blanks between the value and the unit                 *)
(*   unit  what follows the value: "", "uJ", "pJ" or "%"                   *)
(* Floating-point metrics are kept in thousandths (energy in thousandths   *)
(* of a pJ, utilization in thousandths of a percent).                      *)
(* A pattern is taken to match within one line.                            *)
(*                                                                         *)
(* src/parse_results.py is stored with its quotes and backslashes escaped  *)
(* by one more backslash; it is read here with the escapes removed.        *)
(***************************************************************************)
EXTENDS Integers, Sequences, FiniteSets, TLC

VARIABLES
    stats_file,   \* the report file handed to an extractor: NoFile or its lines
    xwho,         \* which extractor has run ("none" before)
    xres          \* what it did: [raised, metrics]

\* sweep.py and parse_and_plot1.py (Spec)
VARIABLES
    OVERWRITE,          \* sweep.py's module flag
    cfg,                \* per workload: what loading its base configuration gives
    shared,             \* which of the shared ERT.yaml / ART.yaml sources exist
    timeloop_installed, \* whether the timeloop-model binary can be launched
    fs,                 \* per job directory: the files in it
    run,                \* 1: the first execution of sweep.main, 2: the re-run
    pc,                 \* where sweep.main / parse_and_plot1.main stands
    w, a, b,            \* the loop indices of sweep.main
    nprocs,             \* simulator processes running
    calls,              \* jobs run_timeloop was called for, this execution
    started,            \* jobs whose simulator process was started, this execution
    exitcode,           \* per job: the return code of this execution (-1: none)
    fails,              \* non-zero exits so far
    problem_template,   \* the densities of the problem template last loaded
    cwd,                \* the current working directory of sweep.py's process
    orig_dir,           \* run_timeloop's local orig_dir
    tables              \* the result sets parse_and_plot1.main has built so far

\* parse_results.py and parse_plot_dynamic.py, the main functions (SpecParse)
VARIABLES
    prog,            \* which script runs
    input_is_dir,    \* whether the input directory exists
    entries,         \* what os.listdir / iterdir finds in it
    remaining,       \* names the loop has not come to yet
    all_data,        \* the rows collected (all_data, results_data)
    ppc,             \* where main stands
    exit_status,     \* the process's exit status (-1 while it runs)
    csv,             \* the output CSV file
    csv_lines,       \* the file at parse_results.py's output_csv_path, by lines
    figures_exists,  \* whether <cwd>/figures exists
    created          \* what the run has created on the filesystem

\* sweep_dynamic.py (SpecDynamic)
VARIABLES
    preflight,        \* what the checks and the load of the sequence file find
    layers,           \* the layer entries of the sequence file
    missing_files,    \* the workload and architecture files that do not exist
    mapper_installed, \* whether the timeloop-mapper binary can be launched
    dpc,              \* where sweep_dynamic.main stands
    li,               \* index of the layer entry the loop is at
    success_count,    \* main's counter
    dprocs,           \* simulator processes running
    outcome,          \* per layer entry: what became of it
    dstatus           \* the process's exit status (-1 while it runs)

\* parse_and_plot_m2.py, parse_timeloop_stats (SpecM2)
VARIABLES
    m2_file,   \* the report file handed to parse_timeloop_stats
    m2_res     \* what it returned ([called |-> FALSE] before)

\* configure_run.py (SpecConfigure)
VARIABLES
    layer_args,     \* args.layer: the --layer arguments, in order
    ci,             \* index of the argument the loop is at
    valid_config,   \* main's flag
    sequence_data,  \* sequence_data['layers']
    cpc,            \* where configure_run.main stands
    cstatus,        \* the process's exit status (-1 while it runs)
    output_yaml     \* the sequence file at output_yaml_path

\* compare_stc_dstc.py (SpecCompare)
VARIABLES
    found,                 \* the layer directories under the density directories
    unparsed,              \* the reports parse_stats_txt returns nothing for
    kd,                    \* index of the density the collection loop is at
    results,               \* results[base_layer_name][density][scheme]
    base_layer_names_set,  \* main's set of base layer names
    all_data_list,         \* the rows of the table
    kpc,                   \* where compare_stc_dstc.main stands
    kstatus                \* the process's exit status (-1 while it runs)

xvars == <<stats_file, xwho, xres>>

mvars == <<m2_file, m2_res>>

cvars == <<layer_args, ci, valid_config, sequence_data, cpc, cstatus, output_yaml>>

kvars == <<found, unparsed, kd, results, base_layer_names_set, all_data_list, kpc,
           kstatus>>

dvars == <<preflight, layers, missing_files, mapper_installed, dpc, li, success_count, dprocs,
           outcome, dstatus>>

pvars == <<prog, input_is_dir, entries, remaining, all_data, ppc, exit_status, csv,
          csv_lines,
           figures_exists, created>>

svars == <<OVERWRITE, cfg, shared, timeloop_installed, fs, run, pc, w, a, b,
           nprocs, calls, started, exitcode, fails, problem_template, cwd,
           orig_dir, tables>>

vars == <<xvars, svars, pvars, dvars, mvars, cvars, kvars>>

\* what each program leaves alone
notExtract == <<svars, pvars, dvars, mvars, cvars, kvars>>

notSweep == <<xvars, pvars, dvars, mvars, cvars, kvars>>

notParse == <<xvars, svars, dvars, mvars, cvars, kvars>>

notDynamic == <<xvars, svars, pvars, mvars, cvars, kvars>>

notM2 == <<xvars, svars, pvars, dvars, cvars, kvars>>

notConfigure == <<xvars, svars, pvars, dvars, mvars, kvars>>

notCompare == <<xvars, svars, pvars, dvars, mvars, cvars>>

(***************************************************************************)
(* Values                                                                  *)
(***************************************************************************)
\* Python's None, and a present value v
None == <<>>

Some(v) == <<v>>

\* a path at which no file exists, and a file with the lines c
NoFile == [exists |-> FALSE, content |-> <<>>]

File(c) == [exists |-> TRUE, content |-> c]

\* longest report (in lines) handed to the extractors
MaxLines == 3

Line(ld, k, g, v, ug, u) ==
    [lead |-> ld, key |-> k, gap |-> g, val |-> v, ugap |-> ug, unit |-> u]

IntTok(n) == [kind |-> "int", milli |-> n * 1000]

DecTok(m) == [kind |-> "dec", milli |-> m]

\* "Cycles: 12345", "Total Cycles: 7", "  Cycles:9"
CyclesLines ==
    { Line("none", "Cycles", 1, IntTok(12345), 0, ""),
      Line("text", "Cycles", 1, IntTok(7), 0, ""),
      Line("ws", "Cycles", 0, IntTok(9), 0, "") }

\* "Energy: 0.002 uJ", "Energy: 1.5 pJ", "  Energy:0.5uJ"
EnergyLines ==
    { Line("none", "Energy", 1, DecTok(2), 1, "uJ"),
      Line("none", "Energy", 1, DecTok(1500), 1, "pJ"),
      Line("ws", "Energy", 0, DecTok(500), 0, "uJ") }

\* "Utilization: 0.73", "Utilization: 1.0", "Utilization: 1.01",
\* "Utilization: 1.5", "Utilization: 73.0%"
UtilizationLines ==
    { Line("none", "Utilization", 1, DecTok(730), 0, ""),
      Line("none", "Utilization", 1, DecTok(1000), 0, ""),
      Line("none", "Utilization", 1, DecTok(1010), 0, ""),
      Line("none", "Utilization", 1, DecTok(1500), 0, ""),
      Line("none", "Utilization", 1, DecTok(73000), 0, "%") }

\* "Summary Stats"
OtherLines == { Line("none", "Other", 0, IntTok(0), 0, "") }

LineUniverse == CyclesLines \cup EnergyLines \cup UtilizationLines \cup OtherLines

Reports == UNION { [1..n -> LineUniverse] : n \in 0..MaxLines }

(***************************************************************************)
(* Regular expressions, by what they accept of a line                      *)
(***************************************************************************)
\* re.match in the place of re.search: a match at the start of the content only
SearchAtStart(matches) == IF 1 \in matches THEN 1 ELSE 0

\* re.search: the leftmost match; 0 when the pattern matches no line
\* (given the set of lines a pattern matches)
Search(matches) ==
    IF matches = {} THEN 0 ELSE CHOOSE i \in matches : \A j \in matches : i <= j

\* (\d+) applied to a numeric token: its leading digits
Digits(v) == v.milli \div 1000

\* float(([\d.]+)) in thousandths
Float(v) == v.milli

\* r'Cycles:\s+(\d+)'  (not anchored: any lead)
ReCycles(l) == l.key = "Cycles" /\ l.gap >= 1

\* r'^Energy:\s+([\d.]+)\s+uJ' with re.MULTILINE
ReEnergyUJ(l) ==
    l.key = "Energy" /\ l.lead = "none" /\ l.gap >= 1 /\ l.ugap >= 1 /\ l.unit = "uJ"

\* r'^Utilization:\s+([\d.]+)' with re.MULTILINE
ReUtilization(l) == l.key = "Utilization" /\ l.lead = "none" /\ l.gap >= 1

\* r'^\s*Cycles:\s*(\d+)' with re.MULTILINE
ReCyclesDyn(l) == l.key = "Cycles" /\ l.lead \in {"none", "ws"}

\* r'^\s*Energy:\s*([\d.eE+-]+)\s*uJ' with re.MULTILINE
ReEnergyUJDyn(l) == l.key = "Energy" /\ l.lead \in {"none", "ws"} /\ l.unit = "uJ"

\* r'^\s*Energy:\s*([\d.eE+-]+)\s*pJ' with re.MULTILINE
ReEnergyPJDyn(l) == l.key = "Energy" /\ l.lead \in {"none", "ws"} /\ l.unit = "pJ"

\* r'^\s*Utilization:\s*([\d.]+)\s*%' with re.MULTILINE
ReUtilizationPct(l) ==
    l.key = "Utilization" /\ l.lead \in {"none", "ws"} /\ l.unit = "%"

\* r'^\s*Utilization:\s*([\d.]+)\s*$' with re.MULTILINE
ReUtilizationFrac(l) ==
    l.key = "Utilization" /\ l.lead \in {"none", "ws"} /\ l.unit = ""

(***************************************************************************)
(* The extractors                                                          *)
(***************************************************************************)
NoMetrics == [cycles |-> None, energy |-> None, utilization |-> None]

\* what a call did: raised an exception, returned None, or returned metrics
Returned(m) == [raised |-> FALSE, isNone |-> FALSE, metrics |-> m]

ReturnedNone == [raised |-> FALSE, isNone |-> TRUE, metrics |-> NoMetrics]

Raised == [raised |-> TRUE, isNone |-> FALSE, metrics |-> NoMetrics]

\* parse_results.py, the body of the with block
MetricsOfContent(content) ==
    LET c == Search({i \in DOMAIN content : ReCycles(content[i])})
        e == Search({i \in DOMAIN content : ReEnergyUJ(content[i])})
        u == Search({i \in DOMAIN content : ReUtilization(content[i])})
    IN  [cycles |-> IF c > 0 THEN Some(Digits(content[c].val)) ELSE None,
         energy |-> IF e > 0 THEN Some(Float(content[e].val) * 1000000) ELSE None,
         utilization |-> IF u > 0 THEN Some(Float(content[u].val) * 100) ELSE None]

\* the extractor without its except FileNotFoundError clause
extract_metrics_from_stats_uncaught(file) ==
    IF ~file.exists THEN Raised ELSE Returned(MetricsOfContent(file.content))

\* parse_results.extract_metrics_from_stats
extract_metrics_from_stats(file) ==
    IF ~file.exists THEN Returned(NoMetrics) ELSE Returned(MetricsOfContent(file.content))

\* the fallback rule without its range test: always a fraction
UtilizationOfFractionAlways(milli) == milli * 100

\* the fallback rule with the fraction range ending below 1.0
UtilizationOfFractionBelowOne(milli) ==
    IF 0 <= milli /\ milli < 1000 THEN milli * 100 ELSE milli

\* parse_plot_dynamic.py, the value of a Utilization field without a percent sign
UtilizationOfFraction(milli) ==
    IF 0 <= milli /\ milli <= 1010 THEN milli * 100 ELSE milli

\* the body of the with block with the energy taken from the first Energy
\* line of either unit
MetricsOfContentDynFirstLine(content) ==
    LET c  == Search({i \in DOMAIN content : ReCyclesDyn(content[i])})
        e  == Search({i \in DOMAIN content :
                        ReEnergyUJDyn(content[i]) \/ ReEnergyPJDyn(content[i])})
        up == Search({i \in DOMAIN content : ReUtilizationPct(content[i])})
        uf == Search({i \in DOMAIN content : ReUtilizationFrac(content[i])})
    IN  [cycles |-> IF c > 0 THEN Some(Digits(content[c].val)) ELSE None,
         energy |-> IF e = 0 THEN None
                    ELSE IF content[e].unit = "uJ"
                         THEN Some(Float(content[e].val) * 1000000)
                         ELSE Some(Float(content[e].val)),
         utilization |-> IF up > 0 THEN Some(Float(content[up].val))
                         ELSE IF uf > 0
                              THEN Some(UtilizationOfFraction(Float(content[uf].val)))
                              ELSE None]

\* parse_plot_dynamic.py, the body of the with block
MetricsOfContentDyn(content) ==
    LET c  == Search({i \in DOMAIN content : ReCyclesDyn(content[i])})
        eu == Search({i \in DOMAIN content : ReEnergyUJDyn(content[i])})
        ep == Search({i \in DOMAIN content : ReEnergyPJDyn(content[i])})
        up == Search({i \in DOMAIN content : ReUtilizationPct(content[i])})
        uf == Search({i \in DOMAIN content : ReUtilizationFrac(content[i])})
    IN  [cycles |-> IF c > 0 THEN Some(Digits(content[c].val)) ELSE None,
         energy |-> IF eu > 0 THEN Some(Float(content[eu].val) * 1000000)
                    ELSE IF ep > 0 THEN Some(Float(content[ep].val))
                    ELSE None,
         utilization |-> IF up > 0 THEN Some(Float(content[up].val))
                         ELSE IF uf > 0
                              THEN Some(UtilizationOfFraction(Float(content[uf].val)))
                              ELSE None]

\* parse_plot_dynamic.extract_metrics_from_stats
extract_metrics_from_stats_dynamic(file) ==
    IF ~file.exists THEN Returned(NoMetrics)
    ELSE Returned(MetricsOfContentDyn(file.content))

\* parse_and_plot1.parse_stats: None for a missing file; cycles and energy
\* default to 0, utilization is a key only when found (Absent: no such key)
Absent == <<-1, -1>>

parse_stats(file) ==
    IF ~file.exists THEN ReturnedNone
    ELSE LET content == file.content
             c == Search({i \in DOMAIN content : ReCycles(content[i])})
             e == Search({i \in DOMAIN content : ReEnergyUJ(content[i])})
             u == Search({i \in DOMAIN content : ReUtilization(content[i])})
         IN  Returned(
               [cycles |-> IF c > 0 THEN Some(Digits(content[c].val)) ELSE Some(0),
                energy |-> IF e > 0 THEN Some(Float(content[e].val) * 1000000)
                           ELSE Some(0),
                utilization |-> IF u > 0 THEN Some(Float(content[u].val) * 100)
                                ELSE Absent])

(***************************************************************************)
(* Programs that are not running                                           *)
(***************************************************************************)
IdleExtract ==
    /\ stats_file = NoFile
    /\ xwho = "idle"
    /\ xres = Returned(NoMetrics)

NoCsv == [written |-> FALSE, header |-> <<>>, rows |-> <<>>]

IdleParse ==
    /\ prog = "idle"
    /\ input_is_dir = FALSE
    /\ entries = {}
    /\ remaining = {}
    /\ all_data = <<>>
    /\ ppc = "idle"
    /\ exit_status = -1
    /\ csv = NoCsv
    /\ csv_lines = NoFile
    /\ figures_exists = FALSE
    /\ created = {}

IdleM2 ==
    /\ m2_file = NoFile
    /\ m2_res = [called |-> FALSE]

IdleConfigure ==
    /\ layer_args = <<>>
    /\ ci = 0
    /\ valid_config = TRUE
    /\ sequence_data = <<>>
    /\ cpc = "idle"
    /\ cstatus = -1
    /\ output_yaml = NoFile

IdleCompare ==
    /\ found = {}
    /\ unparsed = {}
    /\ kd = 0
    /\ results = <<>>
    /\ base_layer_names_set = {}
    /\ all_data_list = <<>>
    /\ kpc = "idle"
    /\ kstatus = -1

\* the programs added to the model after the first four
IdleRest == IdleM2 /\ IdleCompare

IdleDynamic ==
    /\ preflight = "idle"
    /\ layers = <<>>
    /\ missing_files = {}
    /\ mapper_installed = TRUE
    /\ dpc = "idle"
    /\ li = 0
    /\ success_count = 0
    /\ dprocs = 0
    /\ outcome = <<>>
    /\ dstatus = -1

(***************************************************************************)
(* sweep.py: the parameter space                                           *)
(***************************************************************************)
workloads == <<"resnet", "alexnet", "mobilenet">>

\* densities in tenths: 1.0, 0.9, 0.7, 0.5, 0.3
densities_A == <<10, 9, 7, 5, 3>>

\* 1.0, 0.4
densities_B == <<10, 4>>

\* how many entries of workloads and of densities_A the model sweeps
NumWorkloads == 2

NumA == 2

\* most simulator runs that exit non-zero
MaxFail == 1

Min(x, y) == IF x <= y THEN x ELSE y

NW == Min(NumWorkloads, Len(workloads))

NA == Min(NumA, Len(densities_A))

NB == Len(densities_B)

\* job_name = f"{workload}_B_{B_density}-A_{A_density}"
job_name(wi, ai, bi) == <<workloads[wi], densities_B[bi], densities_A[ai]>>

Jobs == { job_name(wi, ai, bi) : wi \in 1..NW, ai \in 1..NA, bi \in 1..NB }

\* what loading a workload's base configuration gives:
\*   "ok"          all files load and the template has both density paths
\*   "missing"     a file is missing or is not YAML: the workload is skipped
\*   "no_inputs"   the template lacks problem, instance, densities or Inputs
\*   "no_weights"  the template has these and lacks Weights
\*   "no_leaf"     the template has Inputs and Weights, one of them without
\*                 the key density
CfgKinds == {"ok", "missing", "no_inputs", "no_weights", "no_leaf"}

\* main, lines 112-117: whether both assignments go through.  They subscript
\* problem, instance, densities and Inputs (Weights), which raises KeyError
\* for an absent key, and assign to the key density, which creates it when
\* it is absent
Overridable(kind) == kind \in {"ok", "no_leaf"}

(***************************************************************************)
(* The files of one job directory                                          *)
(*   dir    whether <job>/outputs exists                                   *)
(*   ert, art, log   0: absent, r: written by execution r                  *)
(*   input  aggregated_input.yaml: <<>> absent, else what was dumped       *)
(*   stats  outputs/timeloop-model.stats.txt                               *)
(***************************************************************************)
EmptyDir ==
    [dir |-> FALSE, ert |-> 0, art |-> 0, input |-> <<>>, log |-> 0, stats |-> NoFile]

\* the report the simulator writes in execution r
SimReport(r) ==
    File(<< Line("none", "Cycles", 1, IntTok(r), 0, ""),
            Line("none", "Energy", 1, DecTok(2), 1, "uJ"),
            Line("none", "Utilization", 1, DecTok(730), 0, "") >>)

\* run_timeloop with the skip test dropped: existing results are always redone
ShouldSkipNever(exists, overwrite) == FALSE

\* run_timeloop with the flag read the wrong way round
ShouldSkipInverted(exists, overwrite) == exists /\ overwrite

\* run_timeloop: an existing output directory is skipped unless OVERWRITE
ShouldSkip(exists, overwrite) == exists /\ ~overwrite

\* the values of problem/instance/densities/Inputs and .../Weights:
\*   NoKey        the mapping is absent
\*   Mapping(v)   the mapping is there; v is None without the key density,
\*                Some(d) with density d
NoKey == [present |-> FALSE, density |-> None]

Mapping(v) == [present |-> TRUE, density |-> v]

\* the density (in tenths) the problem files hold before any override
FileDensity == 8

\* main, line 94: the template loaded for a base configuration of kind
Template(kind) ==
    [Inputs |-> IF kind = "no_inputs" THEN NoKey ELSE Mapping(Some(FileDensity)),
     Weights |-> IF kind = "no_weights" THEN NoKey
                 ELSE IF kind = "no_leaf" THEN Mapping(None)
                 ELSE Mapping(Some(FileDensity))]

\* before any workload is loaded
NoTemplate == [Inputs |-> NoKey, Weights |-> NoKey]

\* main, lines 112-117: the two assignments on new_problem, Inputs first;
\* KeyError for an absent mapping leaves what was assigned before it
Override(problem, A_density, B_density) ==
    IF problem.Inputs = NoKey
    THEN [problem |-> problem, raised |-> TRUE]
    ELSE LET first == [problem EXCEPT !.Inputs = Mapping(Some(A_density))]
         IN  IF first.Weights = NoKey
             THEN [problem |-> first, raised |-> TRUE]
             ELSE [problem |-> [first EXCEPT !.Weights = Mapping(Some(B_density))],
                   raised |-> FALSE]

\* the point's new_problem after lines 110-117
new_problem(wi, ai, bi) ==
    Override(problem_template, densities_A[ai], densities_B[bi]).problem

\* new_problem = problem_template: the assignments go to the template
TemplateAfterOverrideShared(template, overridden) == overridden

\* main, line 110: new_problem is a deepcopy, the assignments of lines
\* 113-114 leave problem_template as it was
TemplateAfterOverride(template, overridden) == template

\* the directory sweep.py is started in
LaunchDir == <<"scripts">>

\* run_timeloop without the finally clause
CwdAtExitNotRestored(orig, current) == current

\* run_timeloop, lines 70-71: finally os.chdir(orig_dir)
CwdAtExit(orig, current) == orig

\* every point of a workload in the directory of the workload's first point
job_dir_per_workload(wi, ai, bi) == job_name(wi, 1, 1)

\* main, line 128: job_dir = output_base_dir / job_name
job_dir(wi, ai, bi) == job_name(wi, ai, bi)

\* run_timeloop, line 22: output_dir = base_dir + "/outputs"
output_dir(base_dir) == <<"outputs", base_dir>>

\* run_timeloop up to Popen: makedirs, the ERT/ART copies, the dump of
\* aggregated_input.yaml, the log file opened for writing
Prepared(d, wi, ai, bi) ==
    [d EXCEPT !.dir = TRUE,
              !.ert = IF "ERT" \in shared THEN run ELSE @,
              !.art = IF "ART" \in shared THEN run ELSE @,
              !.input = <<workloads[wi], new_problem(wi, ai, bi).Inputs.density[1],
                          new_problem(wi, ai, bi).Weights.density[1], run>>,
              !.log = run]

\* a sweep that gives up at the first failed run
StopsOnExitNonZero(returncode) == returncode # 0

\* run_timeloop after communicate(): a non-zero return code is printed, no more
StopsOnExit(returncode) == FALSE

\* the density loops with B outside and A inside
NextPairSwapped(ai, bi) ==
    IF ai < NA THEN <<ai + 1, bi>>
    ELSE IF bi < NB THEN <<1, bi + 1>>
    ELSE <<0, 0>>

\* for A_density in densities_A: for B_density in densities_B: the pair
\* after (ai, bi), <<0, 0>> when the workload's pairs are exhausted
NextPair(ai, bi) ==
    IF bi < NB THEN <<ai, bi + 1>>
    ELSE IF ai < NA THEN <<ai + 1, 1>>
    ELSE <<0, 0>>

\* the loop moves on from (w, a, b)
Advance ==
    LET n == NextPair(a, b)
    IN  IF n = <<0, 0>>
        THEN /\ pc' = "workload"
             /\ w' = w + 1
             /\ a' = 1
             /\ b' = 1
        ELSE /\ pc' = "point"
             /\ w' = w
             /\ a' = n[1]
             /\ b' = n[2]

IdleSweep ==
    /\ OVERWRITE = TRUE
    /\ cfg = <<>>
    /\ shared = {}
    /\ timeloop_installed = TRUE
    /\ fs = <<>>
    /\ run = 0
    /\ pc = "idle"
    /\ w = 0 /\ a = 0 /\ b = 0
    /\ nprocs = 0
    /\ calls = <<>>
    /\ started = <<>>
    /\ exitcode = <<>>
    /\ fails = 0
    /\ problem_template = NoTemplate
    /\ cwd = LaunchDir
    /\ orig_dir = LaunchDir
    /\ tables = <<>>

NoExit == [j \in Jobs |-> -1]

\* the environments a sweep is started in: the nominal one (every base
\* configuration loads, both shared files exist, the simulator is installed)
\* and those that differ from it in one respect
Environments ==
    { e \in [cfg : [1..NW -> CfgKinds], shared : SUBSET {"ERT", "ART"},
             installed : BOOLEAN] :
        Cardinality({i \in 1..NW : e.cfg[i] # "ok"})
          + (IF e.shared # {"ERT", "ART"} THEN 1 ELSE 0)
          + (IF e.installed THEN 0 ELSE 1) <= 1 }

\* sweep.main is started on empty output directories
Init ==
    /\ IdleExtract
    /\ IdleParse
    /\ IdleDynamic
    /\ IdleConfigure
    /\ IdleRest
    /\ OVERWRITE \in BOOLEAN
    /\ \E e \in Environments :
          /\ cfg = e.cfg
          /\ shared = e.shared
          /\ timeloop_installed = e.installed
    /\ fs = [j \in Jobs |-> EmptyDir]
    /\ run = 1
    /\ pc = "workload"
    /\ w = 1 /\ a = 1 /\ b = 1
    /\ nprocs = 0
    /\ calls = <<>>
    /\ started = <<>>
    /\ exitcode = NoExit
    /\ fails = 0
    /\ problem_template = NoTemplate
    /\ cwd = LaunchDir
    /\ orig_dir = LaunchDir
    /\ tables = <<>>

\* main, lines 84-104: the next workload's base configuration is loaded
LoadWorkload ==
    /\ pc = "workload"
    /\ w <= NW
    /\ IF cfg[w] = "missing"
       THEN /\ w' = w + 1
            /\ UNCHANGED <<pc, a, b>>
       ELSE /\ pc' = "point"
            /\ a' = 1
            /\ b' = 1
            /\ UNCHANGED w
    /\ UNCHANGED <<OVERWRITE, cfg, shared, timeloop_installed, fs, run, nprocs,
                   calls, started, exitcode, fails, tables>>
    /\ problem_template' = IF cfg[w] = "missing" THEN problem_template
                            ELSE Template(cfg[w])
    /\ UNCHANGED <<cwd, orig_dir>>
    /\ UNCHANGED notSweep

\* main, lines 110-117: a density key is missing, the pair is skipped
SkipPair ==
    /\ pc = "point"
    /\ ~Overridable(cfg[w])
    /\ Advance
    /\ UNCHANGED <<OVERWRITE, cfg, shared, timeloop_installed, fs, run, nprocs,
                   calls, started, exitcode, fails, tables>>
    /\ problem_template' =
          TemplateAfterOverride(problem_template, new_problem(w, a, b))
    /\ UNCHANGED <<cwd, orig_dir>>
    /\ UNCHANGED notSweep

\* main, lines 110-131 and run_timeloop, lines 22-29: the point is configured,
\* run_timeloop is called and returns at once for existing results
SkipExisting ==
    /\ pc = "point"
    /\ Overridable(cfg[w])
    /\ ShouldSkip(fs[job_dir(w, a, b)].dir, OVERWRITE)
    /\ calls' = Append(calls, job_name(w, a, b))
    /\ Advance
    /\ UNCHANGED <<OVERWRITE, cfg, shared, timeloop_installed, fs, run, nprocs,
                   started, exitcode, fails, tables>>
    /\ problem_template' =
          TemplateAfterOverride(problem_template, new_problem(w, a, b))
    /\ UNCHANGED <<cwd, orig_dir>>
    /\ UNCHANGED notSweep

\* run_timeloop without communicate(): the simulator is started and the
\* loop goes on to the next point while it runs
StartSimulatorDetached ==
    /\ pc = "point"
    /\ Overridable(cfg[w])
    /\ ~ShouldSkip(fs[job_dir(w, a, b)].dir, OVERWRITE)
    /\ timeloop_installed
    /\ calls' = Append(calls, job_name(w, a, b))
    /\ fs' = [fs EXCEPT ![job_dir(w, a, b)] = Prepared(@, w, a, b)]
    /\ started' = Append(started, job_name(w, a, b))
    /\ nprocs' = nprocs + 1
    /\ Advance
    /\ UNCHANGED <<OVERWRITE, cfg, shared, timeloop_installed, run, exitcode, fails,
                   tables>>
    /\ problem_template' =
          TemplateAfterOverride(problem_template, new_problem(w, a, b))
    /\ orig_dir' = cwd
    /\ cwd' = output_dir(job_dir(w, a, b))
    /\ UNCHANGED notSweep

\* main, lines 110-131 and run_timeloop, lines 22-63: the point is configured,
\* its directory prepared and the simulator started; communicate() waits for it
StartSimulator ==
    /\ pc = "point"
    /\ Overridable(cfg[w])
    /\ ~ShouldSkip(fs[job_dir(w, a, b)].dir, OVERWRITE)
    /\ timeloop_installed
    /\ calls' = Append(calls, job_name(w, a, b))
    /\ fs' = [fs EXCEPT ![job_dir(w, a, b)] = Prepared(@, w, a, b)]
    /\ started' = Append(started, job_name(w, a, b))
    /\ nprocs' = nprocs + 1
    /\ pc' = "running"
    /\ UNCHANGED <<OVERWRITE, cfg, shared, timeloop_installed, run, w, a, b,
                   exitcode, fails, tables>>
    /\ problem_template' =
          TemplateAfterOverride(problem_template, new_problem(w, a, b))
    /\ orig_dir' = cwd
    /\ cwd' = output_dir(job_dir(w, a, b))
    /\ UNCHANGED notSweep

\* the same with no timeloop-model on the PATH: Popen raises FileNotFoundError,
\* which nothing in run_timeloop or main catches
LaunchFails ==
    /\ pc = "point"
    /\ Overridable(cfg[w])
    /\ ~ShouldSkip(fs[job_dir(w, a, b)].dir, OVERWRITE)
    /\ ~timeloop_installed
    /\ calls' = Append(calls, job_name(w, a, b))
    /\ fs' = [fs EXCEPT ![job_dir(w, a, b)] = Prepared(@, w, a, b)]
    /\ pc' = "crashed"
    /\ UNCHANGED <<OVERWRITE, cfg, shared, timeloop_installed, run, w, a, b,
                   nprocs, started, exitcode, fails, tables>>
    /\ problem_template' =
          TemplateAfterOverride(problem_template, new_problem(w, a, b))
    /\ orig_dir' = cwd
    /\ cwd' = CwdAtExit(cwd, output_dir(job_dir(w, a, b)))
    /\ UNCHANGED notSweep

\* run_timeloop, lines 64-71: the simulator exits with returncode; it has
\* written its report when it exits 0
SimulatorExit(returncode) ==
    /\ pc = "running"
    /\ returncode # 0 => fails < MaxFail
    /\ fails' = IF returncode # 0 THEN fails + 1 ELSE fails
    /\ nprocs' = nprocs - 1
    /\ exitcode' = [exitcode EXCEPT ![job_name(w, a, b)] = returncode]
    /\ fs' = [fs EXCEPT ![job_dir(w, a, b)].stats =
                            IF returncode = 0 THEN SimReport(run) ELSE @]
    /\ IF StopsOnExit(returncode)
       THEN pc' = "done" /\ UNCHANGED <<w, a, b>>
       ELSE Advance
    /\ UNCHANGED <<OVERWRITE, cfg, shared, timeloop_installed, run, calls,
                   started, tables>>
    /\ cwd' = CwdAtExit(orig_dir, cwd)
    /\ UNCHANGED <<problem_template, orig_dir>>
    /\ UNCHANGED notSweep

\* main: the workload loop is exhausted
FinishSweep ==
    /\ pc = "workload"
    /\ w > NW
    /\ pc' = "done"
    /\ UNCHANGED <<OVERWRITE, cfg, shared, timeloop_installed, fs, run, w, a, b,
                   nprocs, calls, started, exitcode, fails, tables>>
    /\ UNCHANGED <<problem_template, cwd, orig_dir>>
    /\ UNCHANGED notSweep

\* parse_and_plot1.main, lines 112-133: per job, the stats parse_stats returns,
\* kept when truthy
workload_density_stats ==
    [j \in Jobs |->
        LET stats == parse_stats(fs[j].stats)
        IN  IF stats.isNone THEN ReturnedNone ELSE stats]

\* parse_and_plot1.main is run on the outputs
Parse ==
    /\ pc \in {"done", "crashed"}
    /\ Len(tables) < run
    /\ tables' = Append(tables, workload_density_stats)
    /\ pc' = IF pc = "done" THEN "parsed" ELSE "crashed"
    /\ UNCHANGED <<OVERWRITE, cfg, shared, timeloop_installed, fs, run, w, a, b,
                   nprocs, calls, started, exitcode, fails>>
    /\ UNCHANGED <<problem_template, cwd, orig_dir>>
    /\ UNCHANGED notSweep

\* sweep.main is run a second time on the directories the first run left
Rerun ==
    /\ pc = "parsed"
    /\ run = 1
    /\ run' = 2
    /\ pc' = "workload"
    /\ w' = 1 /\ a' = 1 /\ b' = 1
    /\ calls' = <<>>
    /\ started' = <<>>
    /\ exitcode' = NoExit
    /\ UNCHANGED <<OVERWRITE, cfg, shared, timeloop_installed, fs, nprocs, fails,
                   tables>>
    /\ cwd' = LaunchDir
    /\ orig_dir' = LaunchDir
    /\ UNCHANGED problem_template
    /\ UNCHANGED notSweep

Next ==
    \/ LoadWorkload
    \/ SkipPair
    \/ SkipExisting
    \/ StartSimulator
    \/ LaunchFails
    \/ \E returncode \in {0, 1} : SimulatorExit(returncode)
    \/ FinishSweep
    \/ Parse
    \/ Rerun

Spec == Init /\ [][Next]_vars

(***************************************************************************)
(* sweep_dynamic.py                                                        *)
(***************************************************************************)
\* most layer entries in the sequence file
MaxLayers == 2

\* what main finds before the loop:
\*   "ok"            all common files and the sequence file exist, the
\*                   sequence file loads and lists layers
\*   "missing_file"  one of them does not exist
\*   "bad_sequence"  the sequence file does not load or has no layers
PreflightKinds == {"ok", "missing_file", "bad_sequence"}

\* configure_run.py, lines 12-30
LAYER_WORKLOAD_MAP ==
    "resnet50_conv1" :> "resnet/resnet50_conv1_2x4.yaml"
    @@ "resnet50_conv2_block1_1" :> "resnet/resnet50_conv2_block1_1_2x4.yaml"
    @@ "resnet50_conv2_block1_2" :> "resnet/resnet50_conv2_block1_2_2x4.yaml"

\* configure_run.py, lines 35-41
KNOWN_ARCH_FILES ==
    << "dynamic_sparsity_arch.yaml", "structured_2_4_sparse_tensor_core.yaml",
       "unstructured_sparse_tensor_core.yaml", "ideal_sparse_tensor_core.yaml" >>

\* a layer entry of a sequence file; "" for a key that is missing or empty
LayerEntry(n, wl, arch) == [name |-> n, workload |-> wl, sparsity_arch |-> arch]

\* the entries a sequence file may hold: two for resnet50_conv1 with
\* different architectures, one for another layer, one without sparsity_arch
LayerEntries ==
    { LayerEntry("resnet50_conv1", LAYER_WORKLOAD_MAP["resnet50_conv1"],
                 KNOWN_ARCH_FILES[1]),
      LayerEntry("resnet50_conv1", LAYER_WORKLOAD_MAP["resnet50_conv1"],
                 KNOWN_ARCH_FILES[3]),
      LayerEntry("resnet50_conv2_block1_1",
                 LAYER_WORKLOAD_MAP["resnet50_conv2_block1_1"], KNOWN_ARCH_FILES[1]),
      LayerEntry("resnet50_conv1", LAYER_WORKLOAD_MAP["resnet50_conv1"], "") }

\* the files under workload/ and arch/ that may be missing: none, a workload
\* file, an architecture file
MissingFileSets ==
    { {}, {LAYER_WORKLOAD_MAP["resnet50_conv2_block1_1"]}, {KNOWN_ARCH_FILES[3]} }

\* what becomes of a layer entry:
\*   "incomplete"   one of name, workload, sparsity_arch is missing or empty
\*                  (main, line 144)
\*   "no_workload"  the workload file does not exist (run_single_timeloop, l.44)
\*   "no_arch"      the architecture file does not exist (l.48)
\*   "ok"           the simulator is invoked
LayerKinds == {"ok", "incomplete", "no_workload", "no_arch"}

KindOf(layer, missing) ==
    IF layer.name = "" \/ layer.workload = "" \/ layer.sparsity_arch = ""
    THEN "incomplete"
    ELSE IF layer.workload \in missing THEN "no_workload"
    ELSE IF layer.sparsity_arch \in missing THEN "no_arch"
    ELSE "ok"

\* main, line 150: model_output_base / layer_name
layer_output_path(layer) == layer.name

\* a run that counts every invocation, whatever its return code
CountedAlways(returncode) == TRUE

\* run_single_timeloop, lines 71-87 and main, lines 152-153: the invocation
\* is counted in success_count when subprocess.run (check=True) raised nothing
Counted(returncode) == returncode = 0

total_layers == Len(layers)

\* main, lines 162-165
FinalStatus(count, total) == IF count = total THEN 0 ELSE 1

\* sweep_dynamic.main is started
InitDynamic ==
    /\ IdleExtract
    /\ IdleSweep
    /\ IdleParse
    /\ IdleConfigure
    /\ IdleRest
    /\ preflight \in PreflightKinds
    /\ layers \in UNION { [1..n -> LayerEntries] : n \in 1..MaxLayers }
    /\ missing_files \in MissingFileSets
    /\ mapper_installed \in BOOLEAN
    /\ dpc = "start"
    /\ li = 1
    /\ success_count = 0
    /\ dprocs = 0
    /\ outcome = [i \in 1..Len(layers) |-> "none"]
    /\ dstatus = -1

\* the loop of main moves to the next entry, the current one having ended as r
NextLayer(r) ==
    /\ outcome' = [outcome EXCEPT ![li] = r]
    /\ li' = li + 1
    /\ dpc' = "loop"

\* main, lines 100-132: the checks of the common files and the load of the
\* sequence file; sys.exit(1) when one fails
DS_Preflight ==
    /\ dpc = "start"
    /\ IF preflight = "ok"
       THEN dpc' = "loop" /\ UNCHANGED dstatus
       ELSE dpc' = "exited" /\ dstatus' = 1
    /\ UNCHANGED <<preflight, layers, missing_files, mapper_installed, li, success_count, dprocs,
                   outcome>>
    /\ UNCHANGED notDynamic

\* main, lines 140-146: an entry without name, workload or sparsity_arch
DS_SkipIncomplete ==
    /\ dpc = "loop"
    /\ li <= total_layers
    /\ KindOf(layers[li], missing_files) = "incomplete"
    /\ NextLayer("skipped")
    /\ UNCHANGED <<preflight, layers, missing_files, mapper_installed, success_count, dprocs, dstatus>>
    /\ UNCHANGED notDynamic

\* run_single_timeloop, lines 44-51: a missing workload or architecture file,
\* the function returns False
DS_MissingFile ==
    /\ dpc = "loop"
    /\ li <= total_layers
    /\ KindOf(layers[li], missing_files) \in {"no_workload", "no_arch"}
    /\ NextLayer("no_file")
    /\ UNCHANGED <<preflight, layers, missing_files, mapper_installed, success_count, dprocs, dstatus>>
    /\ UNCHANGED notDynamic

\* run_single_timeloop, lines 54-82: timeloop-mapper is not on the PATH,
\* subprocess.run raises FileNotFoundError, the function returns False
DS_CommandNotFound ==
    /\ dpc = "loop"
    /\ li <= total_layers
    /\ KindOf(layers[li], missing_files) = "ok"
    /\ ~mapper_installed
    /\ NextLayer("not_found")
    /\ UNCHANGED <<preflight, layers, missing_files, mapper_installed, success_count, dprocs, dstatus>>
    /\ UNCHANGED notDynamic

\* run_single_timeloop, lines 54-84: subprocess.run raises another exception
\* before a process runs (the binary is not executable), the function
\* returns False
DS_RunRaises ==
    /\ dpc = "loop"
    /\ li <= total_layers
    /\ KindOf(layers[li], missing_files) = "ok"
    /\ mapper_installed
    /\ NextLayer("error")
    /\ UNCHANGED <<preflight, layers, missing_files, mapper_installed, success_count, dprocs, dstatus>>
    /\ UNCHANGED notDynamic

\* run_single_timeloop, lines 54-73: subprocess.run starts timeloop-mapper
\* and waits for it
DS_StartMapper ==
    /\ dpc = "loop"
    /\ li <= total_layers
    /\ KindOf(layers[li], missing_files) = "ok"
    /\ mapper_installed
    /\ dprocs' = dprocs + 1
    /\ dpc' = "running"
    /\ UNCHANGED <<preflight, layers, missing_files, mapper_installed, li, success_count, outcome,
                   dstatus>>
    /\ UNCHANGED notDynamic

\* run_single_timeloop, lines 73-87 and main, lines 152-153: timeloop-mapper
\* exits with returncode; check=True turns a non-zero one into
\* CalledProcessError, which is caught
DS_MapperExit(returncode) ==
    /\ dpc = "running"
    /\ dprocs' = dprocs - 1
    /\ success_count' = IF Counted(returncode) THEN success_count + 1
                        ELSE success_count
    /\ NextLayer(IF returncode = 0 THEN "exit0" ELSE "failed")
    /\ UNCHANGED <<preflight, layers, missing_files, mapper_installed, dstatus>>
    /\ UNCHANGED notDynamic

\* main, lines 155-165: the summary and the exit status
DS_Finish ==
    /\ dpc = "loop"
    /\ li > total_layers
    /\ dpc' = "exited"
    /\ dstatus' = FinalStatus(success_count, total_layers)
    /\ UNCHANGED <<preflight, layers, missing_files, mapper_installed, li, success_count, dprocs,
                   outcome>>
    /\ UNCHANGED notDynamic

\* the steps sweep_dynamic.py takes by itself
DynamicSteps ==
    \/ DS_Preflight
    \/ DS_SkipIncomplete
    \/ DS_MissingFile
    \/ DS_CommandNotFound
    \/ DS_RunRaises
    \/ DS_StartMapper
    \/ DS_Finish

NextDynamic ==
    \/ DynamicSteps
    \/ \E returncode \in {0, 1} : DS_MapperExit(returncode)

SpecDynamic == InitDynamic /\ [][NextDynamic]_vars

(***************************************************************************)
(* configure_run.py (unstructured_sparse_eval), followed by a run of       *)
(* sweep_dynamic.py on the sequence file it generated                      *)
(***************************************************************************)
\* most --layer arguments of one invocation (argparse requires at least one)
MaxArgs == 2

\* a --layer argument, cut at its colons: the colon is an element of its own
Colon == ":"

\* the --layer arguments: without a colon, with a layer that is not in
\* LAYER_WORKLOAD_MAP, with no layer name, two for resnet50_conv1 with
\* different architectures, one for another layer, one with nothing after
\* the colon
LayerSpecs ==
    { <<"resnet50_conv1">>,
      <<"vgg16_conv1", Colon, KNOWN_ARCH_FILES[1]>>,
      <<Colon, KNOWN_ARCH_FILES[1]>>,
      <<"resnet50_conv1", Colon, KNOWN_ARCH_FILES[1]>>,
      <<"resnet50_conv1", Colon, KNOWN_ARCH_FILES[3]>>,
      <<"resnet50_conv2_block1_1", Colon, KNOWN_ARCH_FILES[1]>>,
      <<"resnet50_conv1", Colon>> }

\* the text of a part of an argument that holds no colon: at most one element
TextOf(part) == IF part = <<>> THEN "" ELSE part[1]

\* line 85, layer_spec.split(':', 1) unpacked into two names: ValueError
\* (None) without a colon, else the text before the first colon and the text
\* after it
SplitSpec(layer_spec) ==
    LET colons == { i \in 1..Len(layer_spec) : layer_spec[i] = Colon }
    IN  IF colons = {} THEN None
        ELSE LET i == CHOOSE c \in colons : \A d \in colons : c <= d
             IN  Some([layer_name |-> TextOf(SubSeq(layer_spec, 1, i - 1)),
                       arch_filename |->
                           TextOf(SubSeq(layer_spec, i + 1, Len(layer_spec)))])

\* line 92, LAYER_WORKLOAD_MAP.get(layer_name): "" for None
WorkloadOf(layer_name) ==
    IF layer_name \in DOMAIN LAYER_WORKLOAD_MAP
    THEN LAYER_WORKLOAD_MAP[layer_name] ELSE ""

\* lines 84-112, one round of the loop: the entry appended for layer_spec, or
\* None when the argument is rejected (lines 86-89, 93-96); the checks of
\* lines 99-105 only print warnings
ExamineLayer(layer_spec) ==
    LET parts == SplitSpec(layer_spec)
    IN  IF parts = None THEN None
        ELSE IF WorkloadOf(parts[1].layer_name) = "" THEN None
        ELSE Some(LayerEntry(parts[1].layer_name,
                             WorkloadOf(parts[1].layer_name),
                             parts[1].arch_filename))

\* a file written although an argument was rejected
ShouldWriteValidLayers(valid, layer_list) == layer_list # <<>>

\* lines 115-121: the file is written only when no argument was rejected and
\* the layer list is not empty
ShouldWrite(valid, layer_list) == valid /\ layer_list # <<>>

\* yaml.dump and yaml.safe_load of a string scalar: the empty string is
\* written as two quote marks
EmptyScalar == "''"

Scalar(s) == IF s = "" THEN EmptyScalar ELSE s

Unscalar(t) == IF t = EmptyScalar THEN "" ELSE t

\* line 129, yaml.dump(sequence_data, ...): the layers part of the document
yaml_dump(layer_list) ==
    [ i \in 1..Len(layer_list) |->
        [name |-> Scalar(layer_list[i].name),
         workload |-> Scalar(layer_list[i].workload),
         sparsity_arch |-> Scalar(layer_list[i].sparsity_arch)] ]

\* sweep_dynamic.py, lines 117-119: yaml.safe_load and .get('layers', [])
safe_load(doc) ==
    [ i \in 1..Len(doc) |->
        LayerEntry(Unscalar(doc[i].name), Unscalar(doc[i].workload),
                   Unscalar(doc[i].sparsity_arch)) ]

\* a sequence file left at the output path by an earlier invocation
OldSequenceFile ==
    File(yaml_dump(<<LayerEntry("resnet50_conv2_block1_2",
                                LAYER_WORKLOAD_MAP["resnet50_conv2_block1_2"],
                                KNOWN_ARCH_FILES[2])>>))

\* configure_run.main is started
InitConfigure ==
    /\ IdleExtract
    /\ IdleSweep
    /\ IdleParse
    /\ IdleDynamic
    /\ IdleRest
    /\ layer_args \in UNION { [1..n -> LayerSpecs] : n \in 1..MaxArgs }
    /\ ci = 1
    /\ valid_config = TRUE
    /\ sequence_data = <<>>
    /\ cpc = "loop"
    /\ cstatus = -1
    /\ output_yaml \in {NoFile, OldSequenceFile}

\* lines 83-113: one --layer argument
CR_Examine ==
    /\ cpc = "loop"
    /\ ci <= Len(layer_args)
    /\ LET entry == ExamineLayer(layer_args[ci])
       IN  /\ valid_config' = (valid_config /\ entry # None)
           /\ sequence_data' = IF entry = None THEN sequence_data
                               ELSE Append(sequence_data, entry[1])
    /\ ci' = ci + 1
    /\ UNCHANGED <<layer_args, cpc, cstatus, output_yaml>>
    /\ UNCHANGED notConfigure

\* lines 115-121: nothing is written
CR_Abort ==
    /\ cpc = "loop"
    /\ ci > Len(layer_args)
    /\ ~ShouldWrite(valid_config, sequence_data)
    /\ cpc' = "exited"
    /\ cstatus' = 1
    /\ UNCHANGED <<layer_args, ci, valid_config, sequence_data, output_yaml>>
    /\ UNCHANGED notConfigure

\* lines 123-130: the sequence file is written
CR_Write ==
    /\ cpc = "loop"
    /\ ci > Len(layer_args)
    /\ ShouldWrite(valid_config, sequence_data)
    /\ output_yaml' = File(yaml_dump(sequence_data))
    /\ cpc' = "exited"
    /\ cstatus' = 0
    /\ UNCHANGED <<layer_args, ci, valid_config, sequence_data>>
    /\ UNCHANGED notConfigure

\* lines 127-133: the file cannot be opened for writing
CR_WriteFails ==
    /\ cpc = "loop"
    /\ ci > Len(layer_args)
    /\ ShouldWrite(valid_config, sequence_data)
    /\ cpc' = "exited"
    /\ cstatus' = 1
    /\ UNCHANGED <<layer_args, ci, valid_config, sequence_data, output_yaml>>
    /\ UNCHANGED notConfigure

\* sweep_dynamic.py is started on the generated sequence file (its lines
\* 98-127); the file exists and loads, a common file may be missing
StartSweepDynamic ==
    /\ cpc = "exited"
    /\ cstatus = 0
    /\ dpc = "idle"
    /\ preflight' \in {"ok", "missing_file"}
    /\ layers' = safe_load(output_yaml.content)
    /\ missing_files' \in MissingFileSets
    /\ mapper_installed' \in BOOLEAN
    /\ dpc' = "start"
    /\ li' = 1
    /\ success_count' = 0
    /\ dprocs' = 0
    /\ outcome' = [i \in 1..Len(output_yaml.content) |-> "none"]
    /\ dstatus' = -1
    /\ UNCHANGED <<xvars, svars, pvars, mvars, cvars, kvars>>

NextConfigure ==
    \/ CR_Examine
    \/ CR_Abort
    \/ CR_Write
    \/ CR_WriteFails
    \/ StartSweepDynamic
    \/ NextDynamic

SpecConfigure == InitConfigure /\ [][NextConfigure]_vars

(***************************************************************************)
(* Both sweeps: a run of sweep.py or a run of sweep_dynamic.py             *)
(***************************************************************************)
\* the steps sweep.py takes by itself, up to the end of main
SweepSteps ==
    \/ LoadWorkload
    \/ SkipPair
    \/ SkipExisting
    \/ StartSimulator
    \/ LaunchFails
    \/ FinishSweep

SpecSweeps == (Init \/ InitDynamic) /\ [][Next \/ NextDynamic]_vars

\* the scripts keep running; nothing makes a simulator process exit
SpecSweepsLive == SpecSweeps /\ WF_vars(SweepSteps) /\ WF_vars(DynamicSteps)

(***************************************************************************)
(* parse_results.py and parse_plot_dynamic.py: the main functions          *)
(*                                                                         *)
(* A directory name is the sequence of its parts between underscores.  An  *)
(* entry of the input directory is [name, isdir, stats]: stats is the      *)
(* report file the script looks for inside it (NoFile when there is none). *)
(***************************************************************************)
\* a token standing for Python's None among name parts
NoneTok == "None"

\* most entries in the input directory
MaxEntries == 2

\* <test_type>_<workload>_<architecture>_<num_PEs>_<density_distribution>_<sparsity>
\* and one part more
FullNames ==
    { <<"eval", "resnet", "stc", "64", "uniform", "0.5", "v2">>,
      <<"eval", "alexnet", "stc", "64", "uniform", "0.5", "v2">>,
      <<"eval", "resnet", "stc", "64", "uniform", "0.9", "v2">> }

\* the run directories parse_results.py may find: the full names cut to
\* 2, 3, 4, 6 or 7 parts
RunDirNames == { SubSeq(n, 1, k) : n \in FullNames, k \in {2, 3, 4, 6, 7} }

\* the layer directories parse_plot_dynamic.py may find
LayerDirNames == { <<"conv1">>, <<"conv2">>, <<"figures">> }

\* sorted(): the order of the layer directory names
LayerRank(name) ==
    CASE name = <<"conv1">> -> 1
      [] name = <<"conv2">> -> 2
      [] name = <<"figures">> -> 3

\* a report with no Cycles line
ReportWithoutCycles == File(<< Line("none", "Energy", 1, DecTok(2), 1, "uJ") >>)

\* a plain file; a directory without a report, with a report, with a report
\* that has no Cycles line
EntryKinds ==
    { [isdir |-> FALSE, stats |-> NoFile],
      [isdir |-> TRUE, stats |-> NoFile],
      [isdir |-> TRUE, stats |-> SimReport(1)],
      [isdir |-> TRUE, stats |-> ReportWithoutCycles] }

Entry(name) == CHOOSE e \in entries : e.name = name

\* parse_results.parse_file_path, given the parts of the directory name:
\* <<architecture, num_PEs, density_distribution, sparsity>>
parse_file_path(dir_parts) ==
    IF Len(dir_parts) >= 6
    THEN <<dir_parts[3], dir_parts[4], dir_parts[5], dir_parts[6]>>
    ELSE << IF Len(dir_parts) > 2 THEN dir_parts[3] ELSE NoneTok,
            IF Len(dir_parts) > 3 THEN dir_parts[4] ELSE NoneTok,
            NoneTok,
            NoneTok >>

\* the row with the architecture in the place of the directory name
combined_data_wrong_directory(item, point, metrics) ==
    [directory |-> <<point[1]>>,
     architecture |-> point[1],
     num_PEs |-> point[2],
     density_distribution |-> point[3],
     sparsity |-> point[4],
     cycles |-> metrics.cycles,
     energy |-> metrics.energy,
     utilization |-> metrics.utilization]

\* parse_results.main, lines 175-188 (the arch_* columns are left out)
combined_data(item, point, metrics) ==
    [directory |-> item,
     architecture |-> point[1],
     num_PEs |-> point[2],
     density_distribution |-> point[3],
     sparsity |-> point[4],
     cycles |-> metrics.cycles,
     energy |-> metrics.energy,
     utilization |-> metrics.utilization]

\* parse_results.main, lines 175-188: the keys of a row, in the order of the
\* dict display
RowKeys ==
    << "directory", "architecture", "num_PEs", "density_distribution",
       "sparsity", "cycles", "energy", "utilization" >>

\* line 198: header = list(all_data[0].keys())
HeaderOf(row) == SelectSeq(RowKeys, LAMBDA k : k \in DOMAIN row)

\* a line of the CSV file: the header, a row, or a line left by an earlier run
HeaderLine(header) == [kind |-> "header", cells |-> header]

RowLine(header, row) ==
    [kind |-> "row", cells |-> [i \in 1..Len(header) |-> row[header[i]]]]

OldLine == [kind |-> "old", cells |-> <<>>]

\* what the output path holds before the run: nothing, an empty file, a file
\* with a line
CsvBefore == {NoFile, File(<<>>), File(<<OldLine>>)}

\* the file opened for appending: its lines stay
OpenedForAppend(lines) == lines

\* line 203, open(output_csv_path, 'w', newline=''): the file is truncated
Opened(lines) == <<>>

\* lines 205-206: the header is written when there was no file before the
\* open, or when the file has size 0 after it
WritesHeader(file_exists, size) == ~file_exists \/ size = 0

\* lines 198-207: the file after the with block
WrittenCsv(before, data) ==
    LET header == HeaderOf(data[1])
        opened == Opened(before.content)
    IN  File(opened
             \o (IF WritesHeader(before.exists, Len(opened))
                 THEN <<HeaderLine(header)>> ELSE <<>>)
             \o [i \in 1..Len(data) |-> RowLine(header, data[i])])

\* parse_results.main, line 194: sys.exit(0) when no data was collected
NoDataExitStatus == 0

\* parse_plot_dynamic.main, line 177: sys.exit(1) when nothing was parsed
NoResultsExitStatus == 1

\* parse_plot_dynamic.main, lines 165-173 (the columns taken from the
\* sequence file are left out)
results_row(layer_name, metrics) ==
    [Layer |-> layer_name,
     Cycles |-> metrics.cycles,
     Energy |-> metrics.energy,
     Utilization |-> metrics.utilization]

\* parse_plot_dynamic.main, line 140
layer_dirs == { e.name : e \in { x \in entries : x.isdir /\ x.name # <<"figures">> } }

Exit(status) ==
    /\ ppc' = "exited"
    /\ exit_status' = status

InitParse ==
    /\ IdleExtract
    /\ IdleSweep
    /\ IdleDynamic
    /\ IdleConfigure
    /\ IdleRest
    /\ prog \in {"parse_results", "parse_plot_dynamic"}
    /\ input_is_dir \in BOOLEAN
    /\ figures_exists \in (IF prog = "parse_plot_dynamic" THEN BOOLEAN ELSE {FALSE})
    /\ IF input_is_dir
       THEN \E names \in SUBSET (IF prog = "parse_results" THEN RunDirNames
                                 ELSE LayerDirNames) :
               /\ Cardinality(names) <= MaxEntries
               /\ \E kind \in [names -> EntryKinds] :
                     entries = { [name |-> n, isdir |-> kind[n].isdir,
                                  stats |-> kind[n].stats] : n \in names }
       ELSE entries = {}
    /\ remaining = {}
    /\ all_data = <<>>
    /\ ppc = "start"
    /\ exit_status = -1
    /\ csv = NoCsv
    /\ csv_lines \in (IF prog = "parse_results" THEN CsvBefore ELSE {NoFile})
    /\ created = {}

\* parse_results.main, lines 116-124
PR_CheckInput ==
    /\ prog = "parse_results"
    /\ ppc = "start"
    /\ IF ~input_is_dir
       THEN Exit(1) /\ UNCHANGED remaining
       ELSE /\ ppc' = "loop"
            /\ remaining' = { e.name : e \in entries }
            /\ UNCHANGED exit_status
    /\ UNCHANGED <<prog, input_is_dir, entries, all_data, csv, csv_lines, figures_exists, created>>
    /\ UNCHANGED notParse

\* parse_results.main, lines 126-189: one item of os.listdir, in any order
PR_ProcessItem(item) ==
    /\ prog = "parse_results"
    /\ ppc = "loop"
    /\ item \in remaining
    /\ remaining' = remaining \ {item}
    /\ LET point == parse_file_path(item)
       IN  all_data' =
              IF Entry(item).isdir /\ point[1] # NoneTok
              THEN Append(all_data,
                          combined_data(item, point,
                              extract_metrics_from_stats(Entry(item).stats).metrics))
              ELSE all_data
    /\ UNCHANGED <<prog, input_is_dir, entries, ppc, exit_status, csv, csv_lines, figures_exists,
                   created>>
    /\ UNCHANGED notParse

\* parse_results.main, lines 191-211
PR_Finish ==
    /\ prog = "parse_results"
    /\ ppc = "loop"
    /\ remaining = {}
    /\ IF all_data = <<>>
       THEN Exit(NoDataExitStatus) /\ UNCHANGED <<csv, csv_lines, created>>
       ELSE /\ csv' = [written |-> TRUE,
                       header |-> <<"directory", "architecture", "num_PEs",
                                    "density_distribution", "sparsity", "cycles",
                                    "energy", "utilization">>,
                       rows |-> all_data]
            /\ csv_lines' = WrittenCsv(csv_lines, all_data)
            /\ created' = created \cup {"csv"}
            /\ Exit(0)
    /\ UNCHANGED <<prog, input_is_dir, entries, remaining, all_data, figures_exists>>
    /\ UNCHANGED notParse

\* parse_plot_dynamic.main, lines 106-146
DYN_CheckInput ==
    /\ prog = "parse_plot_dynamic"
    /\ ppc = "start"
    /\ figures_exists' = TRUE
    /\ created' = IF figures_exists THEN created ELSE created \cup {"figures"}
    /\ IF ~input_is_dir \/ layer_dirs = {}
       THEN Exit(1) /\ UNCHANGED remaining
       ELSE /\ ppc' = "loop"
            /\ remaining' = layer_dirs
            /\ UNCHANGED exit_status
    /\ UNCHANGED <<prog, input_is_dir, entries, all_data, csv, csv_lines>>
    /\ UNCHANGED notParse

\* parse_plot_dynamic.main, lines 148-173: the next layer directory in sorted
\* order
DYN_ProcessLayer ==
    /\ prog = "parse_plot_dynamic"
    /\ ppc = "loop"
    /\ remaining # {}
    /\ LET layer_name == CHOOSE n \in remaining :
                             \A m \in remaining : LayerRank(n) <= LayerRank(m)
           stats == Entry(layer_name).stats
           metrics == extract_metrics_from_stats_dynamic(stats).metrics
       IN  /\ remaining' = remaining \ {layer_name}
           /\ all_data' = IF stats.exists /\ metrics.cycles # None
                          THEN Append(all_data, results_row(layer_name, metrics))
                          ELSE all_data
    /\ UNCHANGED <<prog, input_is_dir, entries, ppc, exit_status, csv, csv_lines, figures_exists,
                   created>>
    /\ UNCHANGED notParse

\* parse_plot_dynamic.main, lines 175-275
DYN_Finish ==
    /\ prog = "parse_plot_dynamic"
    /\ ppc = "loop"
    /\ remaining = {}
    /\ IF all_data = <<>>
       THEN Exit(NoResultsExitStatus) /\ UNCHANGED <<csv, csv_lines, created>>
       ELSE /\ UNCHANGED csv_lines
            /\ csv' = [written |-> TRUE,
                       header |-> <<"Layer", "Cycles", "Energy (pJ)", "Utilization (%)">>,
                       rows |-> all_data]
            /\ created' = created \cup {"csv", "plot"}
            /\ Exit(0)
    /\ UNCHANGED <<prog, input_is_dir, entries, remaining, all_data, figures_exists>>
    /\ UNCHANGED notParse

NextParse ==
    \/ PR_CheckInput
    \/ \E item \in RunDirNames : PR_ProcessItem(item)
    \/ PR_Finish
    \/ DYN_CheckInput
    \/ DYN_ProcessLayer
    \/ DYN_Finish

SpecParse == InitParse /\ [][NextParse]_vars

(***************************************************************************)
(* SpecExtract: one report, one extractor applied to it                    *)
(***************************************************************************)
InitExtract ==
    /\ stats_file \in {File(c) : c \in Reports} \cup {NoFile}
    /\ xwho = "none"
    /\ xres = Returned(NoMetrics)
    /\ IdleSweep
    /\ IdleParse
    /\ IdleDynamic
    /\ IdleConfigure
    /\ IdleRest

ExtractParseResults ==
    /\ xwho = "none"
    /\ xwho' = "parse_results"
    /\ xres' = extract_metrics_from_stats(stats_file)
    /\ UNCHANGED stats_file
    /\ UNCHANGED notExtract

ExtractDynamic ==
    /\ xwho = "none"
    /\ xwho' = "parse_plot_dynamic"
    /\ xres' = extract_metrics_from_stats_dynamic(stats_file)
    /\ UNCHANGED stats_file
    /\ UNCHANGED notExtract

ExtractParseStats ==
    /\ xwho = "none"
    /\ xwho' = "parse_and_plot1"
    /\ xres' = parse_stats(stats_file)
    /\ UNCHANGED stats_file
    /\ UNCHANGED notExtract

NextExtract == ExtractParseResults \/ ExtractDynamic \/ ExtractParseStats

SpecExtract == InitExtract /\ [][NextExtract]_vars

(***************************************************************************)
(* parse_and_plot_m2.py: parse_timeloop_stats, the energy part             *)
(*                                                                         *)
(* A line of the report is a component header '=== name ===', a line       *)
(* 'Energy (total) : x pJ' (x in thousandths of a pJ), or another line.    *)
(* The keys Cycles and Utilization of the record are left out.             *)
(***************************************************************************)
Components == {"MAC", "Buffer"}

M2Line(k, n, e) == [kind |-> k, name |-> n, pJ |-> e]

\* '=== MAC ===', '=== Buffer ===', 'Energy (total) : 1.0 pJ',
\* 'Energy (total) : 2.5 pJ', 'Summary Stats'
M2LineUniverse ==
    { M2Line("component", "MAC", 0),
      M2Line("component", "Buffer", 0),
      M2Line("energy", "", 1000),
      M2Line("energy", "", 2500),
      M2Line("other", "", 0) }

M2Reports == UNION { [1..n -> M2LineUniverse] : n \in 0..MaxLines }

\* stats['EnergyBreakdown'] = {}: no component has a key (-1)
EmptyBreakdown == [c \in Components |-> -1]

\* lines 68-77, the loop over the lines from line i on, given
\* current_component (None or Some(name)), the breakdown and total_energy
RECURSIVE EnergyLoop(_, _, _, _, _)
EnergyLoop(lines, i, current_component, breakdown, total_energy) ==
    IF i > Len(lines)
    THEN [EnergyBreakdown |-> breakdown, Energy |-> total_energy]
    ELSE LET line == lines[i]
             component == IF line.kind = "component" THEN Some(line.name)
                          ELSE current_component
         IN  IF line.kind = "energy" /\ component # None
             THEN EnergyLoop(lines, i + 1, component,
                             [breakdown EXCEPT ![component[1]] = line.pJ],
                             total_energy + line.pJ)
             ELSE EnergyLoop(lines, i + 1, component, breakdown, total_energy)

\* parse_timeloop_stats: None for a missing file, else the record
parse_timeloop_stats(file) ==
    IF ~file.exists
    THEN [called |-> TRUE, isNone |-> TRUE, EnergyBreakdown |-> EmptyBreakdown,
          Energy |-> 0]
    ELSE LET stats == EnergyLoop(file.content, 1, None, EmptyBreakdown, 0)
         IN  [called |-> TRUE, isNone |-> FALSE,
              EnergyBreakdown |-> stats.EnergyBreakdown, Energy |-> stats.Energy]

InitM2 ==
    /\ IdleExtract
    /\ IdleSweep
    /\ IdleParse
    /\ IdleDynamic
    /\ IdleConfigure
    /\ IdleCompare
    /\ m2_file \in {File(c) : c \in M2Reports} \cup {NoFile}
    /\ m2_res = [called |-> FALSE]

ParseTimeloopStats ==
    /\ ~m2_res.called
    /\ m2_res' = parse_timeloop_stats(m2_file)
    /\ UNCHANGED m2_file
    /\ UNCHANGED notM2

NextM2 == ParseTimeloopStats

SpecM2 == InitM2 /\ [][NextM2]_vars

(***************************************************************************)
(* compare_stc_dstc.py (fig15_stc_related_setup): the comparison table     *)
(***************************************************************************)
\* lines 23-29, the densities in ten-thousandths; TARGET_DENSITIES is
\* iterated in the order of its display, which is DENSITY_SORT_ORDER
DENSITY_SORT_ORDER == <<2500, 3333, 5000, 10000>>

\* lines 31-34, the keys of TARGET_SCHEMES in the order of the display
TARGET_SCHEMES == <<"DSTC", "STC">>

\* line 35
SCHEME_SORT_ORDER == <<"STC", "DSTC">>

\* the layer directory names a density directory may hold, cut at "-", in
\* the order sorted() gives them: conv1, conv1-WD0.25, conv1-WD0.5-v2,
\* conv1-WD1, conv2-WD0.5
SortedDirNames ==
    << <<"conv1">>, <<"conv1", "WD0.25">>, <<"conv1", "WD0.5", "v2">>,
       <<"conv1", "WD1">>, <<"conv2", "WD0.5">> >>

\* most layer directories under all density directories together
MaxLayerDirs == 2

\* line 86: the parts a match of WD\d+\.\d+ starts
WDParts == {"WD0.25", "WD0.5"}

\* lines 86-91: group 1 of ^(.*)-WD\d+\.\d+ (the text before the last
\* such part), else the full name
BaseName(dirname) ==
    LET wd == { i \in 2..Len(dirname) : dirname[i] \in WDParts }
    IN  IF wd = {} THEN dirname
        ELSE SubSeq(dirname, 1, (CHOOSE i \in wd : \A j \in wd : j <= i) - 1)

\* what parse_stats_txt returned for a report it parsed
ParsedData(di, dirname, scheme) ==
    [cycles |-> Some(100 * di + Len(dirname)),
     energy_pj |-> Some(IF scheme = "STC" THEN 7000 ELSE 9000)]

\* lines 107 and 120
NoData == [cycles |-> None, energy_pj |-> None]

\* lines 97-107: the two schemes of one layer directory
RECURSIVE CollectSchemes(_, _, _, _)
CollectSchemes(res, di, dirname, si) ==
    IF si > Len(TARGET_SCHEMES) THEN res
    ELSE LET scheme == TARGET_SCHEMES[si]
             key == <<BaseName(dirname), DENSITY_SORT_ORDER[di], scheme>>
             data == IF <<di, dirname, scheme>> \in unparsed THEN NoData
                     ELSE ParsedData(di, dirname, scheme)
         IN  CollectSchemes([k \in DOMAIN res \cup {key} |->
                                IF k = key THEN data ELSE res[k]],
                            di, dirname, si + 1)

\* lines 84-107: the layer directories of one density, in sorted order
RECURSIVE CollectDirs(_, _, _)
CollectDirs(res, di, i) ==
    IF i > Len(SortedDirNames) THEN res
    ELSE CollectDirs(IF <<di, SortedDirNames[i]>> \in found
                     THEN CollectSchemes(res, di, SortedDirNames[i], 1)
                     ELSE res,
                     di, i + 1)

\* lines 119-120: the two .get calls with their defaults
ResultAt(res, layer, density, scheme) ==
    IF <<layer, density, scheme>> \in DOMAIN res
    THEN res[<<layer, density, scheme>>] ELSE NoData

\* line 112: sorted(list(base_layer_names_set))
sorted_unique_layers ==
    LET bases == << <<"conv1">>, <<"conv1", "WD1">>, <<"conv2">> >>
    IN  SelectSeq(bases, LAMBDA n : n \in base_layer_names_set)

\* a table with rows only for the densities at which the layer was found
FoundDensities(layer) ==
    SelectSeq(DENSITY_SORT_ORDER,
              LAMBDA d : \E s \in {"STC", "DSTC"} : <<layer, d, s>> \in DOMAIN results)

\* line 115: every density of DENSITY_SORT_ORDER, for every layer
TableDensities(layer) == DENSITY_SORT_ORDER

\* lines 122-128
TableRow(layer, density, scheme) ==
    [layer_config |-> layer, density |-> density, scheme |-> scheme,
     cycles |-> ResultAt(results, layer, density, scheme).cycles,
     energy_pj |-> ResultAt(results, layer, density, scheme).energy_pj]

\* lines 115-128: the rows of one layer
RowsOfLayer(layer) ==
    LET ds == TableDensities(layer)
        ns == Len(SCHEME_SORT_ORDER)
    IN  [ i \in 1..(Len(ds) * ns) |->
            TableRow(layer, ds[((i - 1) \div ns) + 1],
                     SCHEME_SORT_ORDER[((i - 1) % ns) + 1]) ]

\* lines 114-128
RECURSIVE TableRows(_, _)
TableRows(layer_seq, i) ==
    IF i > Len(layer_seq) THEN <<>>
    ELSE RowsOfLayer(layer_seq[i]) \o TableRows(layer_seq, i + 1)

\* compare_stc_dstc.main is started
InitCompare ==
    /\ IdleExtract
    /\ IdleSweep
    /\ IdleParse
    /\ IdleDynamic
    /\ IdleConfigure
    /\ IdleM2
    /\ found \in { f \in SUBSET ((1..Len(DENSITY_SORT_ORDER))
                               \X { SortedDirNames[i] : i \in 1..Len(SortedDirNames) }) :
                     Cardinality(f) <= MaxLayerDirs }
    /\ unparsed \in { u \in SUBSET (found \X {"STC", "DSTC"}) : Cardinality(u) <= 1 }
    /\ kd = 1
    /\ results = <<>>
    /\ base_layer_names_set = {}
    /\ all_data_list = <<>>
    /\ kpc = "collect"
    /\ kstatus = -1

\* lines 65-107: one density directory (missing, unreadable or empty when no
\* layer directory is found under it)
KC_Density ==
    /\ kpc = "collect"
    /\ kd <= Len(DENSITY_SORT_ORDER)
    /\ results' = CollectDirs(results, kd, 1)
    /\ base_layer_names_set' =
          base_layer_names_set \cup { BaseName(f[2]) : f \in { g \in found : g[1] = kd } }
    /\ kd' = kd + 1
    /\ UNCHANGED <<found, unparsed, all_data_list, kpc, kstatus>>
    /\ UNCHANGED notCompare

\* lines 109-132: the table, or exit 1 when it has no row
KC_BuildTable ==
    /\ kpc = "collect"
    /\ kd > Len(DENSITY_SORT_ORDER)
    /\ all_data_list' = TableRows(sorted_unique_layers, 1)
    /\ IF all_data_list' = <<>>
       THEN kpc' = "exited" /\ kstatus' = 1
       ELSE kpc' = "table" /\ UNCHANGED kstatus
    /\ UNCHANGED <<found, unparsed, kd, results, base_layer_names_set>>
    /\ UNCHANGED notCompare

NextCompare ==
    \/ KC_Density
    \/ KC_BuildTable

SpecCompare == InitCompare /\ [][NextCompare]_vars

(***************************************************************************)
(* Claims about report extraction (SpecExtract)                            *)
(***************************************************************************)
\* the canonical fields, each at the start of a line:
\* 'Cycles: N', 'Energy: E uJ', 'Utilization: U'
IsCyclesField(l) ==
    l.key = "Cycles" /\ l.lead = "none" /\ l.gap = 1 /\ l.val.kind = "int" /\ l.unit = ""

IsEnergyField(l) ==
    l.key = "Energy" /\ l.lead = "none" /\ l.gap = 1 /\ l.ugap = 1 /\ l.unit = "uJ"

IsUtilizationField(l) ==
    l.key = "Utilization" /\ l.lead = "none" /\ l.gap = 1 /\ l.unit = ""

CyclesFields(content) == { i \in DOMAIN content : IsCyclesField(content[i]) }

EnergyFields(content) == { i \in DOMAIN content : IsEnergyField(content[i]) }

UtilizationFields(content) == { i \in DOMAIN content : IsUtilizationField(content[i]) }

\* the report holds exactly one canonical field of each kind
HasTheFields(content) ==
    /\ Cardinality(CyclesFields(content)) = 1
    /\ Cardinality(EnergyFields(content)) = 1
    /\ Cardinality(UtilizationFields(content)) = 1

\* ... and no other line names one of the three keys
OnlyTheFields(content) ==
    /\ HasTheFields(content)
    /\ \A i \in 1..Len(content) :
          content[i].key \in {"Cycles", "Energy", "Utilization"}
             => \/ IsCyclesField(content[i])
                \/ IsEnergyField(content[i])
                \/ IsUtilizationField(content[i])

FieldN(content) == Digits(content[CHOOSE i \in CyclesFields(content) : TRUE].val)

FieldE(content) == Float(content[CHOOSE i \in EnergyFields(content) : TRUE].val)

FieldU(content) ==
    Float(content[CHOOSE i \in UtilizationFields(content) : TRUE].val)

\* C1: for a path at which no report file exists, extract_metrics_from_stats
\* (parse_results.py and parse_plot_dynamic.py) raises nothing and returns the
\* record with cycles, energy and utilization all None.
C1_MissingFileAllAbsent ==
    (xwho \in {"parse_results", "parse_plot_dynamic"} /\ ~stats_file.exists)
        => /\ ~xres.raised
           /\ ~xres.isNone
           /\ xres.metrics = [cycles |-> None, energy |-> None, utilization |-> None]

C1_Witness ==
    /\ xwho = "parse_results"
    /\ ~stats_file.exists
    /\ xres.metrics.cycles = None

\* C2 as stated: for every report holding the fields 'Cycles: N',
\* 'Energy: E uJ' and 'Utilization: U', each at the start of a line, every
\* extractor returns cycles N, energy E x 1,000,000 and utilization U x 100.
C2_Original ==
    (xwho # "none" /\ stats_file.exists /\ HasTheFields(stats_file.content))
        => /\ ~xres.raised
           /\ ~xres.isNone
           /\ xres.metrics.cycles = Some(FieldN(stats_file.content))
           /\ xres.metrics.energy = Some(FieldE(stats_file.content) * 1000000)
           /\ xres.metrics.utilization = Some(FieldU(stats_file.content) * 100)

\* C2 amended: for every report whose only Cycles, Energy and Utilization
\* lines are the three fields, extraction returns cycles N, energy
\* E x 1,000,000 and utilization U x 100, except that the extractor of
\* parse_plot_dynamic.py returns U itself when U > 1.01.
C2_FieldsExtracted ==
    (xwho # "none" /\ stats_file.exists /\ OnlyTheFields(stats_file.content))
        => /\ ~xres.raised
           /\ ~xres.isNone
           /\ xres.metrics.cycles = Some(FieldN(stats_file.content))
           /\ xres.metrics.energy = Some(FieldE(stats_file.content) * 1000000)
           /\ xres.metrics.utilization =
                 Some(IF xwho = "parse_plot_dynamic" /\ FieldU(stats_file.content) > 1010
                      THEN FieldU(stats_file.content)
                      ELSE FieldU(stats_file.content) * 100)

\* the example of the claim: 12345 cycles, 0.002 uJ, utilization 0.73
C2_Witness ==
    /\ xwho = "parse_plot_dynamic"
    /\ stats_file.exists
    /\ OnlyTheFields(stats_file.content)
    /\ FieldN(stats_file.content) = 12345
    /\ FieldE(stats_file.content) = 2
    /\ FieldU(stats_file.content) = 730
    /\ xres.metrics = [cycles |-> <<12345>>, energy |-> <<2000000>>,
                       utilization |-> <<73000>>]

\* the Utilization lines of a report with and without a percent sign
PercentUtilizations(content) ==
    { i \in DOMAIN content : content[i].key = "Utilization" /\ content[i].unit = "%" }

PlainUtilizations(content) ==
    { i \in DOMAIN content : content[i].key = "Utilization" /\ content[i].unit = "" }

FirstOf(indices) == CHOOSE i \in indices : \A j \in indices : i <= j

\* C15: for a report whose Utilization fields carry no percent sign, the
\* extractor of parse_plot_dynamic.py reports the first field's value u as
\* u x 100 when 0 <= u <= 1.01 and as u itself when u > 1.01; u = 1.0 is
\* reported as 100.
C15_FractionRule ==
    ( /\ xwho = "parse_plot_dynamic"
      /\ stats_file.exists
      /\ PercentUtilizations(stats_file.content) = {}
      /\ PlainUtilizations(stats_file.content) # {} )
        => LET u == stats_file.content[FirstOf(PlainUtilizations(stats_file.content))]
                        .val.milli
           IN  /\ ~xres.raised
               /\ (0 <= u /\ u <= 1010) => xres.metrics.utilization = <<u * 100>>
               /\ u > 1010 => xres.metrics.utilization = <<u>>
               /\ u = 1000 => xres.metrics.utilization = <<100000>>

\* 'Utilization: 1.0' is reported as 100
C15_Witness ==
    /\ xwho = "parse_plot_dynamic"
    /\ stats_file.exists
    /\ PercentUtilizations(stats_file.content) = {}
    /\ PlainUtilizations(stats_file.content) # {}
    /\ stats_file.content[FirstOf(PlainUtilizations(stats_file.content))].val.milli = 1000
    /\ xres.metrics.utilization = <<100000>>

\* C16 as stated: every utilization that extract_metrics_from_stats
\* (parse_results.py, parse_plot_dynamic.py) stores is a percentage in the
\* closed range [0, 100].
C16_Original ==
    ( /\ xwho \in {"parse_results", "parse_plot_dynamic"}
      /\ xres.metrics.utilization # None )
        => /\ 0 <= xres.metrics.utilization[1]
           /\ xres.metrics.utilization[1] <= 100000

\* the lines of a report that name a metric
LinesOf(content, key) == { i \in DOMAIN content : content[i].key = key }

\* C17 as stated: the record an extractor returns for an existing report has
\* all three metric keys, and a metric no line of the report names is stored
\* as None.
C17_Original ==
    (xwho # "none" /\ stats_file.exists)
        => /\ ~xres.isNone
           /\ xres.metrics.cycles # Absent
           /\ xres.metrics.energy # Absent
           /\ xres.metrics.utilization # Absent
           /\ LinesOf(stats_file.content, "Cycles") = {} => xres.metrics.cycles = None
           /\ LinesOf(stats_file.content, "Energy") = {} => xres.metrics.energy = None
           /\ LinesOf(stats_file.content, "Utilization") = {}
                 => xres.metrics.utilization = None

Permuted(content, p) == [i \in 1..Len(content) |-> content[p[i]]]

OneLinePerMetric(content) ==
    \A key \in {"Cycles", "Energy", "Utilization"} :
       Cardinality(LinesOf(content, key)) <= 1

MicroJouleLines(content) ==
    { i \in DOMAIN content :
        content[i].key = "Energy" /\ content[i].unit = "uJ" /\ content[i].lead # "text" }

PicoJouleLines(content) ==
    { i \in DOMAIN content :
        content[i].key = "Energy" /\ content[i].unit = "pJ" /\ content[i].lead # "text" }

\* C19: the extractor of parse_plot_dynamic.py takes the energy from one
\* pattern only: from the first 'Energy: x uJ' line, as x x 1,000,000, when
\* the report has one, wherever its 'Energy: y pJ' lines stand; from the
\* first pJ line, as y, only when no uJ line matches; None when neither does.
\* Likewise the utilization is the value of the first 'Utilization: p%' line,
\* as it stands, whenever the report has one.
C19_FirstDialectWins ==
    (xwho = "parse_plot_dynamic" /\ stats_file.exists)
        => LET uj == MicroJouleLines(stats_file.content)
               pj == PicoJouleLines(stats_file.content)
           IN  /\ uj # {} => xres.metrics.energy =
                                <<stats_file.content[FirstOf(uj)].val.milli * 1000000>>
               /\ (uj = {} /\ pj # {}) =>
                     xres.metrics.energy = <<stats_file.content[FirstOf(pj)].val.milli>>
               /\ (uj = {} /\ pj = {}) => xres.metrics.energy = None
               /\ PercentUtilizations(stats_file.content) # {} =>
                     xres.metrics.utilization =
                        <<stats_file.content[
                             FirstOf(PercentUtilizations(stats_file.content))].val.milli>>

\* 'Energy: 1.5 pJ' stands before 'Energy: 0.002 uJ': the energy is 2000 pJ
C19_Witness ==
    /\ xwho = "parse_plot_dynamic"
    /\ stats_file.exists
    /\ Len(stats_file.content) >= 2
    /\ stats_file.content[1] = Line("none", "Energy", 1, DecTok(1500), 1, "pJ")
    /\ stats_file.content[2] = Line("none", "Energy", 1, DecTok(2), 1, "uJ")
    /\ xres.metrics.energy = <<2000000>>

(***************************************************************************)
(* Claims about the sweep of sweep.py and parse_and_plot1.py (Spec)        *)
(***************************************************************************)
Points == (1..NW) \X (1..NA) \X (1..NB)

PointOf == [j \in Jobs |-> CHOOSE p \in Points : job_name(p[1], p[2], p[3]) = j]

\* position in the order: workloads, then densities_A, then densities_B
RankOf == [j \in Jobs |->
             ((PointOf[j][1] - 1) * NA + (PointOf[j][2] - 1)) * NB + PointOf[j][3]]

Called == { calls[k] : k \in 1..Len(calls) }

Started == { started[k] : k \in 1..Len(started) }

\* the jobs of the workloads whose configuration loads and takes both
\* density overrides without a KeyError
Configurable == { j \in Jobs : Overridable(cfg[PointOf[j][1]]) }

SweepReturned == pc \in {"done", "parsed"}

\* C3: a simulator run that exits non-zero does not stop the sweep: when
\* main has returned, every configurable point after the failed one in the
\* enumeration order was configured and its simulator started; and an
\* execution that died did so in a call whose simulator never started, not
\* after a return code.
C3_FailureDoesNotStopSweep ==
    /\ SweepReturned =>
          \A j \in Jobs : exitcode[j] > 0 =>
             \A j2 \in Configurable :
                RankOf[j2] > RankOf[j] => j2 \in Called /\ j2 \in Started
    /\ pc = "crashed" => Len(started) < Len(calls)

C3_Witness ==
    /\ pc = "done"
    /\ \E j, j2 \in Jobs :
          /\ exitcode[j] = 1
          /\ RankOf[j2] > RankOf[j]
          /\ j2 \in Started
          /\ exitcode[j2] = 0

\* C4 as stated: a point whose simulator run exited non-zero contributes no
\* metric values to the result set parsed afterwards, whatever its output
\* directory holds.
C4_Original ==
    (pc = "parsed" /\ Len(tables) = run) =>
        \A j \in Jobs : exitcode[j] > 0 => tables[run][j].isNone

\* C5 as stated: for each workload whose base configuration files load,
\* when main has returned run_timeloop was called exactly once for every
\* pair of densities_A x densities_B.
C5_Original ==
    SweepReturned =>
        \A wi \in 1..NW : cfg[wi] # "missing" =>
           \A ai \in 1..NA, bi \in 1..NB :
              Cardinality({k \in 1..Len(calls) : calls[k] = job_name(wi, ai, bi)}) = 1

\* C5 amended: run_timeloop is called only for pairs of workloads whose base
\* configuration loads and whose problem template has the mappings
\* problem/instance/densities/Inputs and problem/instance/densities/Weights, in
\* strictly increasing lexicographic order (workload, A_density, B_density:
\* so at most once each), and when main has returned it has been called for
\* every such pair.
C5_CallsInLexicographicOrder ==
    /\ \A k \in 1..Len(calls) : calls[k] \in Configurable
    /\ \A k \in 1..(Len(calls) - 1) : RankOf[calls[k]] < RankOf[calls[k + 1]]
    /\ SweepReturned => Configurable \subseteq Called

C5_Witness ==
    /\ pc = "done"
    /\ \E wi \in 1..NW : cfg[wi] = "no_weights"
    /\ Len(calls) = (NW - 1) * NA * NB
    /\ Len(calls) >= 4

\* C7: when OVERWRITE is false and the point's output directory exists, the
\* step that calls run_timeloop starts no simulator and leaves every file of
\* every job directory (the ERT.yaml and ART.yaml copies,
\* aggregated_input.yaml, timeloop.log, the report) as it was.
C7_SkipWritesNothing ==
    [][ (pc = "point" /\ Overridable(cfg[w]) /\ ~OVERWRITE /\ fs[job_dir(w, a, b)].dir)
           => /\ fs' = fs
              /\ nprocs' = nprocs
              /\ started' = started
              /\ pc' \notin {"running", "crashed"} ]_vars

C7_Witness ==
    /\ run = 2
    /\ ~OVERWRITE
    /\ Len(calls) > 0
    /\ started = <<>>
    /\ fs[calls[1]].dir
    /\ fs[calls[1]].log = 1
    /\ fs[calls[1]].input # <<>>
    /\ fs[calls[1]].input[4] = 1

\* C8: in a re-run of the sweep with OVERWRITE false on the directories the
\* first sweep left, no simulator is started, and the result set parsed after
\* the re-run equals the one parsed before it.
C8_RerunParsesTheSame ==
    (run = 2 /\ ~OVERWRITE) =>
        /\ started = <<>>
        /\ nprocs = 0
        /\ Len(tables) = 2 => tables[2] = tables[1]

C8_Witness ==
    /\ run = 2
    /\ ~OVERWRITE
    /\ Len(tables) = 2
    /\ Len(calls) = NW * NA * NB
    /\ \E j \in Jobs : ~tables[2][j].isNone
    /\ \E j \in Jobs : tables[2][j].isNone

\* the workloads whose template loads and lacks a component of an override path
LackingOverridePath ==
    { wi \in 1..NW : cfg[wi] \in {"no_inputs", "no_weights", "no_leaf"} }

\* C12 as stated: for a workload whose problem template lacks any component of
\* an override path, no point is configured: run_timeloop is not called for
\* it and no aggregated_input.yaml is written for it.
C12_Original ==
    \A j \in Jobs :
       PointOf[j][1] \in LackingOverridePath
          => j \notin Called /\ fs[j].input = <<>>

\* C20 as stated: an error raised while a point is run (here: the simulator
\* binary cannot be launched) does not leave the sweep loop; once the sweep
\* is over every configurable point was attempted.
C20_Original ==
    /\ pc # "crashed"
    /\ (pc \in {"done", "parsed"}) => Configurable \subseteq Called

(***************************************************************************)
(* Claims about the parse entry points (SpecParse)                         *)
(***************************************************************************)
ParameterPoint(row) ==
    <<row.architecture, row.num_PEs, row.density_distribution, row.sparsity>>

\* C6 as stated: the table built by parse_results.main never holds two rows
\* with the same (architecture, num_PEs, density_distribution, sparsity).
C6_Original ==
    prog = "parse_results" =>
        \A i, j \in 1..Len(all_data) :
           i # j => ParameterPoint(all_data[i]) # ParameterPoint(all_data[j])

\* C6 amended: the table built by parse_results.main never holds two rows
\* with the same directory name, and has a row for exactly the directories
\* whose name has more than two parts; rows of different directories may
\* share their ParameterPoint.
C6_RowsUniqueByDirectory ==
    prog = "parse_results" =>
        /\ \A i, j \in 1..Len(all_data) :
              i # j => all_data[i].directory # all_data[j].directory
        /\ \A i \in 1..Len(all_data) :
              \E e \in entries :
                 e.isdir /\ e.name = all_data[i].directory /\ Len(e.name) > 2
        /\ ppc = "exited" /\ input_is_dir =>
              \A e \in entries :
                 (e.isdir /\ Len(e.name) > 2) =>
                    \E i \in 1..Len(all_data) : all_data[i].directory = e.name

C6_Witness ==
    /\ prog = "parse_results"
    /\ ppc = "exited"
    /\ Len(all_data) = 2
    /\ all_data[1].directory # all_data[2].directory
    /\ ParameterPoint(all_data[1]) = ParameterPoint(all_data[2])

\* C9 as stated: a parse run that collected no result row exits with a
\* non-zero status and has written no CSV file.
C9_Original ==
    (ppc = "exited" /\ all_data = <<>>) => exit_status # 0 /\ ~csv.written

\* C10 as stated: when the input directory does not exist, the parse entry
\* point exits with status 1 and has created nothing on the filesystem.
C10_Original ==
    (ppc = "exited" /\ ~input_is_dir) => exit_status = 1 /\ created = {}

(***************************************************************************)
(* Claims about sweep_dynamic.py (SpecDynamic) and about both sweeps       *)
(* (SpecSweeps, SpecSweepsLive)                                            *)
(***************************************************************************)
Succeeded == { i \in 1..Len(outcome) : outcome[i] = "exit0" }

\* C11 as stated: sweep_dynamic.main exits 0 whenever at least one layer
\* succeeded, and non-zero only when none did.
C11_Original ==
    dpc = "exited" => (dstatus = 0 <=> Succeeded # {})

\* C13: at every moment of a sweep (sweep.py, sweep_dynamic.py) at most one
\* simulator process is running, and one is running exactly while the script
\* waits for it: the next point's process is started only after the current
\* one has exited.
C13_OneSimulatorAtATime ==
    /\ nprocs \in {0, 1}
    /\ dprocs \in {0, 1}
    /\ nprocs = 1 <=> pc = "running"
    /\ dprocs = 1 <=> dpc = "running"
    /\ pc = "running" =>
          \A k \in 1..(Len(started) - 1) : exitcode[started[k]] >= 0

\* the second simulator of a sweep is running, the first has exited
C13_Witness ==
    /\ pc = "running"
    /\ nprocs = 1
    /\ Len(started) = 2
    /\ exitcode[started[1]] >= 0
    /\ exitcode[started[2]] = -1

SweepOver == pc \in {"done", "crashed", "parsed"} \/ dpc = "exited"

\* C14 as stated: a sweep eventually reaches its end, even when a simulator
\* process never exits on its own.
C14_Original == <>SweepOver

(***************************************************************************)
(* Claims about parse_timeloop_stats (SpecM2)                              *)
(***************************************************************************)
RECURSIVE SumOver(_, _)
SumOver(f, keys) ==
    IF keys = {} THEN 0
    ELSE LET k == CHOOSE x \in keys : TRUE
         IN  f[k] + SumOver(f, keys \ {k})

\* the components that have a key in the breakdown
Stored(breakdown) == { c \in Components : breakdown[c] # -1 }

\* C30 as stated: in the record parse_timeloop_stats returns, Energy equals
\* the sum of the values stored in EnergyBreakdown.
C30_Original ==
    (m2_res.called /\ ~m2_res.isNone)
        => m2_res.Energy
              = SumOver(m2_res.EnergyBreakdown, Stored(m2_res.EnergyBreakdown))

(***************************************************************************)
(* Claims about the summary of sweep_dynamic.main (SpecDynamic)            *)
(***************************************************************************)

\* the entries that were skipped or whose invocation did not exit 0
NotSucceeded ==
    { i \in 1..Len(outcome) :
        outcome[i] \in {"skipped", "no_file", "not_found", "error", "failed"} }

\* main has printed its summary (lines 155-159)
SummaryReported == dpc = "exited" /\ li > total_layers

\* C25: at the end of sweep_dynamic.main success_count is the number of layer
\* entries whose simulator invocation ran and exited 0, total_layers is the
\* number of entries of the sequence file, 0 <= success_count <= total_layers,
\* and total_layers - success_count is the number of failed or skipped entries.
C25_SummaryCounts ==
    /\ success_count = Cardinality(Succeeded)
    /\ 0 <= success_count /\ success_count <= total_layers
    /\ SummaryReported =>
          total_layers - success_count = Cardinality(NotSucceeded)

C25_Witness ==
    /\ SummaryReported
    /\ total_layers = MaxLayers
    /\ success_count = 1
    /\ \E i \in 1..Len(outcome) : outcome[i] = "failed"

(***************************************************************************)
(* Claims about configure_run.py and the sequence file it generates        *)
(* (SpecConfigure)                                                         *)
(***************************************************************************)
\* a --layer argument without a colon
Malformed(layer_spec) == \A i \in 1..Len(layer_spec) : layer_spec[i] # Colon

\* a --layer argument whose text before the colon is no key of
\* LAYER_WORKLOAD_MAP
NamesUnknownLayer(layer_spec) ==
    /\ ~Malformed(layer_spec)
    /\ \/ layer_spec[1] = Colon
       \/ layer_spec[1] \notin DOMAIN LAYER_WORKLOAD_MAP

Rejected(layer_spec) == Malformed(layer_spec) \/ NamesUnknownLayer(layer_spec)

AnyRejected == \E i \in 1..Len(layer_args) : Rejected(layer_args[i])

\* the output path holds what it held when configure_run was started
NothingWritten == output_yaml \in {NoFile, OldSequenceFile}

\* the text after the colon of an argument that has one
ArchOf(layer_spec) == IF Len(layer_spec) >= 3 THEN layer_spec[3] ELSE ""

\* the layer list of the file has one entry per --layer argument, in
\* argument order
OneEntryPerArgument ==
    /\ output_yaml.exists
    /\ Len(output_yaml.content) = Len(layer_args)
    /\ \A i \in 1..Len(layer_args) :
          safe_load(output_yaml.content)[i] =
              LayerEntry(layer_args[i][1], LAYER_WORKLOAD_MAP[layer_args[i][1]],
                         ArchOf(layer_args[i]))

\* C28: configure_run is all-or-nothing: if any --layer argument is malformed
\* or names a layer not in LAYER_WORKLOAD_MAP, every remaining argument is
\* still examined, no sequence file is written and the process exits 1;
\* otherwise the file written has one entry per --layer argument, in argument
\* order (and when the file cannot be written, nothing is written).
C28_AllOrNothing ==
    cpc = "exited" =>
        /\ ci = Len(layer_args) + 1
        /\ AnyRejected => cstatus = 1 /\ NothingWritten
        /\ ~AnyRejected =>
              IF cstatus = 0 THEN OneEntryPerArgument ELSE NothingWritten

\* a rejected first argument, an accepted second one: the second was examined
\* and nothing was written
C28_Witness ==
    /\ cpc = "exited"
    /\ Len(layer_args) = MaxArgs
    /\ Rejected(layer_args[1])
    /\ ~Rejected(layer_args[2])
    /\ Len(sequence_data) = 1
    /\ cstatus = 1

\* C29 as stated: every layer entry of a sequence file that configure_run
\* wrote passes the entry check of sweep_dynamic.main, so none is skipped as
\* incomplete.
C29_Original ==
    \A i \in 1..Len(outcome) : outcome[i] # "skipped"

\* the entries for which run_single_timeloop reached its output directory
\* (sweep_dynamic.py, line 54)
ReachedOutput ==
    { i \in 1..Len(outcome) :
        outcome[i] \in {"not_found", "error", "exit0", "failed"} }

\* C21 as stated: within one sweep no two points are given the same output
\* directory.
C21_Original ==
    \A i, j \in ReachedOutput :
        i # j => layer_output_path(layers[i]) # layer_output_path(layers[j])

(***************************************************************************)
(* Claims about what a point of sweep.py leaves behind (Spec)              *)
(***************************************************************************)
\* C26: when run_timeloop returns or raises, the current working directory is
\* the one it was at entry, so every point's run starts from the directory
\* sweep.py was started in, whatever the earlier points did.
C26_CwdRestored ==
    /\ pc # "running" => cwd = LaunchDir
    /\ pc = "running" =>
          orig_dir = LaunchDir /\ cwd = output_dir(job_dir(w, a, b))

\* run_timeloop has returned for a point whose simulator was started
C26_Witness ==
    /\ pc = "point"
    /\ started # <<>>
    /\ cwd = LaunchDir

\* C27: the density override of one point never leaks into another: the
\* loaded problem_template is what was loaded, after every point, also after
\* a point abandoned between its two overrides, and each point's artifact
\* carries its own (A_density, B_density).
C27_NoDensityLeak ==
    /\ pc \in {"point", "running"} => problem_template = Template(cfg[w])
    /\ \A wi \in 1..NW, ai \in 1..NA, bi \in 1..NB :
          fs[job_name(wi, ai, bi)].input # <<>> =>
              /\ fs[job_name(wi, ai, bi)].input[2] = densities_A[ai]
              /\ fs[job_name(wi, ai, bi)].input[3] = densities_B[bi]

\* a first workload whose points ran, a second one whose template lacks
\* Weights and whose first pair was abandoned after the Inputs override
C27_Witness ==
    /\ pc = "point"
    /\ w = 2
    /\ cfg[w] = "no_weights"
    /\ b = 2
    /\ fs[job_name(1, 1, 1)].input # <<>>
    /\ fs[job_name(1, NA, NB)].input # <<>>

\* C22: every file the run of a point creates or overwrites lies in that
\* point's own job directory; the shared ERT/ART sources and the base
\* configuration files are never written.
C22_WritesOnlyOwnJobDir ==
    [][ /\ \A j \in Jobs :
              fs'[j] # fs[j] =>
                  pc \in {"point", "running"} /\ j = job_name(w, a, b)
        /\ shared' = shared
        /\ cfg' = cfg ]_vars

\* two points of one workload have run
C22_Witness ==
    /\ pc \in {"point", "workload"}
    /\ fs[job_name(1, 1, 1)].stats.exists
    /\ fs[job_name(1, 1, 2)].stats.exists

(***************************************************************************)
(* Claims about the CSV file of parse_results.main (SpecParse)             *)
(***************************************************************************)
\* C23: the CSV written by parse_results.main consists of exactly one header
\* line, equal to the key list of the first collected row, followed by
\* exactly one line per collected row, whether the output file was absent,
\* empty or non-empty before the run.
C23_OneHeaderThenRows ==
    (prog = "parse_results" /\ ppc = "exited" /\ csv.written) =>
        /\ csv_lines.exists
        /\ Len(csv_lines.content) = 1 + Len(all_data)
        /\ csv_lines.content[1].kind = "header"
        /\ { csv_lines.content[1].cells[i] :
               i \in 1..Len(csv_lines.content[1].cells) } = DOMAIN all_data[1]
        /\ csv_lines.content[1].cells = RowKeys
        /\ \A i \in 1..Len(all_data) :
              /\ csv_lines.content[i + 1].kind = "row"
              /\ \A c \in 1..Len(RowKeys) :
                    csv_lines.content[i + 1].cells[c] = all_data[i][RowKeys[c]]

\* two rows were collected and written
C23_Witness ==
    /\ prog = "parse_results"
    /\ ppc = "exited"
    /\ csv.written
    /\ Len(all_data) = 2
    /\ Len(csv_lines.content) = 3

(***************************************************************************)
(* Claims about the comparison table (SpecCompare)                         *)
(***************************************************************************)
\* the base layer names of the directories found
DiscoveredLayers == { BaseName(f[2]) : f \in found }

\* a report was parsed for the combination
ReportParsed(layer, di, scheme) ==
    \E f \in found :
        /\ f[1] = di
        /\ BaseName(f[2]) = layer
        /\ <<di, f[2], scheme>> \notin unparsed

RowsFor(layer, density, scheme) ==
    { i \in 1..Len(all_data_list) :
        /\ all_data_list[i].layer_config = layer
        /\ all_data_list[i].density = density
        /\ all_data_list[i].scheme = scheme }

====
